---------------------------- MODULE Spec2Model ----------------------------
(***************************************************************************)
(* A model of webhint (sanektmb/hint): the browser extension's connector,  *)
(* the CLI analyze action, the engine's event bus, the jsdom resource      *)
(* loader and the https-only hint.  Each component has its own variables,  *)
(* initial condition, next-state relation and specification; a component's *)
(* actions leave the variables of the other components unchanged.          *)
(***************************************************************************)
EXTENDS Integers, Sequences, FiniteSets, TLC

(***************************************************************************)
(* Bounds of the model.                                                    *)
(***************************************************************************)
\* Browser messages delivered to one WebExtensionConnector.
MaxMsgs == 2
\* Elements of the DOM snapshot that traverse() visits.
MaxElements == 1
\* Rejections (a throwing listener, a failing evaluation) during one scan.
MaxThrows == 1
\* Targets given to the CLI analyze action.
MaxTargets == 2
\* Problems in the result of one target.
MaxProblems == 1
\* Calls of createAnalyzer made by one run of getAnalyzer (it retries).
MaxAttempts == 2
\* Calls of CustomResourceLoader.fetch made by jsdom on one connector.
MaxFetches == 2
\* Events delivered to one https-only hint instance.
MaxEvents == 3
\* URL-valued attributes (src, poster, data, srcset entries) of one element.
MaxAttrs == 2
\* Listeners registered on one engine.
MaxListeners == 3
\* emitAsync calls made on the engine from outside any listener.
MaxEmits == 1
\* Scan cycles (targets) of one Analyzer run.
MaxScans == 2
\* Events a connector emits during one scan.
MaxScanEvents == 2
\* Files under a directory target of the local connector.
MaxFiles == 2
\* Notifications of the file watcher during one watch session.
MaxNotes == 2
\* Calls of the CLI's execute made in one process.
MaxCalls == 3
\* CLI actions registered in cliActions.
MaxActions == 2
\* Calls of loadWebhint made by one extension host.
MaxLoads == 2
\* Last value of the clock, in half days.
MaxClock == 3
\* fetch::end::* events delivered to the http-compression hint.
MaxValidations == 1
\* Declarations in one CSS block.
MaxNodes == 3

VARIABLES
    \* ---- WebExtensionConnector (extension-browser content script) ----
    collectState,   \* collect(): "idle", "scanStart", "pending", "resolved", "rejected"
    collectErr,     \* the error collect() rejected with (NoErr: none)
    onComplete,     \* this._onComplete: "noop" (field initialiser) or "set" (by collect)
    document,       \* this._document is defined
    fetchEndQueue,  \* this._fetchEndQueue: ids of the queued fetchEnd messages
    msgs,           \* the messages received so far, each with its listener's position
    load,           \* position of the onLoad timer callback
    flushIdx,       \* sendFetchEndEvents: index of the queue entry being dispatched
    travIdx,        \* traverse: elements visited so far
    scanEnd,        \* the async body of _onComplete(null): "none", "emitting", "done", "failed"
    emitted,        \* every emitAsync call made on the engine, in call order
    thrown,         \* the errors caught by the connector's try/catch blocks
    sent,           \* messages sent with browser.runtime.sendMessage
    \* ---- CLI analyze action (hint/src/lib/cli/analyze.ts) ----
    cliPc,          \* position of the action's async body
    targets,        \* getAsUris(actions._): the protocol of each target
    configFound,    \* getUserConfig(actions.config) returned a configuration
    userConfig,     \* userConfig of the action: hasThreshold, severityThreshold
    config,         \* the configuration given to createAnalyzer: "user" or an extends name
    attempts,       \* createAnalyzer calls made so far
    created,        \* the outcome of every createAnalyzer call, in call order
    analyzerError,  \* what getAnalyzer threw to the action: "none" or the error
    errorLog,       \* the logger.error calls, in call order
    asked,          \* the questions put to the user, with the answers
    installs,       \* the installPackages calls made, with their results
    exitCode,       \* let exitCode
    ended,          \* end.problems of every targetEndCallback call, in call order
    printed,        \* the reports handed to webhint.format, in call order
    analyzeOutcome, \* webhint.analyze(): "none", "running", "resolved", "rejected"
    returned,       \* what the action settled with: "pending", "true", "false", "threw"
    \* ---- CustomResourceLoader (connector-jsdom resource loader) ----
    fetchedHrefs,   \* this._connector.fetchedHrefs
    fetches,        \* the fetch() calls made so far: url, position, request outcome, promise
    serverEmitted,  \* every emitAsync call made on this._connector.server, in call order
    \* ---- HttpsOnlyHint (hint-https-only) ----
    target,                  \* let target (NoUrl while unset)
    targetIsServedOverHTTPS, \* this.targetIsServedOverHTTPS
    reportedUrls,            \* const reportedUrls: Set<string>
    hintReports,             \* the context.report calls: resource and message, in call order
    delivered,               \* events delivered to the hint so far
    \* ---- Engine event bus with the JavaScript and JSX parsers ----
    registry,     \* the listeners in registration order: kind and pattern
    dispatches,   \* every emitAsync call: topic, payload, listeners to run, their states
    busLog,       \* listener starts and settlements, in order
    emits,        \* emitAsync calls made from outside any listener
    \* ---- Engine scan cycle (analyze, hintsTimeout, connector close) ----
    enginePhase,      \* "Idle", "Scanning", "Completed", "Failed"
    connectorCollect, \* the promise of connector.collect(): "none", "pending", "resolved", "rejected"
    hintsTimer,       \* the hintsTimeout timer: "off", "armed", "elapsed"
    analyzePromise,   \* the promise of analyze(): "none", "pending", "resolved" or the error
    closeCalls,       \* calls of connector.close() in this cycle
    engineLog,        \* the events of this cycle, in order
    outcomes,         \* the finished cycles: result, close() calls, collect() promise
    \* ---- LocalConnector (connector-local) ----
    localPc,       \* collect(): "idle", "new", "fetchStart", "fetching", "watching", "done"
    localTarget,   \* "none", "file", "directory", "remote"
    watch,         \* the connector's `watch` option
    files,         \* the files under a directory target
    toFetch,       \* files of the initial scan not fetched yet
    localEmitted,  \* the engine.emitAsync calls of the connector, in order
    localCollect,  \* the promise of collect(): "none", "pending", "resolved", "rejected"
    localError,    \* what collect() rejected with ("none": nothing)
    watcher,       \* the chokidar watcher: "none", "open", "closed", "failed"
    handlers,      \* the watcher notifications handled so far, in order of arrival
    \* ---- CLI execute (hint/src/lib/cli.ts) ----
    cliActions,    \* the module's list of actions still to be tried
    execCalls,     \* the calls of execute: position, actions tried, result
    loggedErrors,  \* the logger.error calls, in order
    notified,      \* the calls of execute that notified the user of an update
    \* ---- loadWebhint / updateSharedWebhint (extension-vscode) ----
    now,            \* Date.now(), in half days
    sharedPackage,  \* TRUE when "hint" can be loaded from globalStoragePath
    lastUpdate,     \* the time in last-update.txt, -1 when there is no such file
    loads,          \* the calls of loadWebhint
    updates,        \* the calls of updateSharedWebhint
    sharedInstalls, \* the calls of installWebhint
    timers,         \* pending setTimeout callbacks of loadSharedWebhint
    \* ---- HttpCompressionHint (hint-http-compression) ----
    htmlOptions,     \* getHintOptions('html')
    resourceOptions, \* getHintOptions('resource')
    validations,     \* the calls of validate, one per fetch::end::* event
    compLog,         \* per validation: the checks called, requests issued and reports made
    \* ---- CSSCompatHint (hint-compat-api) ----
    compatProp,      \* the browsers that do not support a property
    compatValue,     \* the browsers that do not support a value
    cssBlock,        \* the declarations of the block walked
    cssPc,           \* "parsed" before walk, "walked" after
    cssReported      \* the context.report calls of the walk

webVars == <<collectState, collectErr, onComplete, document, fetchEndQueue, msgs,
             load, flushIdx, travIdx, scanEnd, emitted, thrown, sent>>

cliVars == <<cliPc, targets, configFound, userConfig, config, attempts, created,
             analyzerError, errorLog, asked, installs, exitCode, ended, printed,
             analyzeOutcome, returned>>

loaderVars == <<fetchedHrefs, fetches, serverEmitted>>

httpsVars == <<target, targetIsServedOverHTTPS, reportedUrls, hintReports, delivered>>

busVars == <<registry, dispatches, busLog, emits>>

engineVars == <<enginePhase, connectorCollect, hintsTimer, analyzePromise,
                closeCalls, engineLog, outcomes>>

localVars == <<localPc, localTarget, watch, files, toFetch, localEmitted,
               localCollect, localError, watcher, handlers>>

execVars == <<cliActions, execCalls, loggedErrors, notified>>

sharedVars == <<now, sharedPackage, lastUpdate, loads, updates, sharedInstalls, timers>>

compVars == <<htmlOptions, resourceOptions, validations, compLog>>

cssVars == <<compatProp, compatValue, cssBlock, cssPc, cssReported>>

vars == <<webVars, cliVars, loaderVars, httpsVars, busVars, engineVars, localVars,
          execVars, sharedVars, compVars, cssVars>>

(***************************************************************************)
(* WebExtensionConnector                                                   *)
(***************************************************************************)

\* The kinds of message browser.runtime.onMessage delivers (shared/types
\* Events): one the listener ignores (a resource of the extension itself, or
\* a response the Fetcher was waiting for), a fetchStart, the fetchEnd of the
\* page itself, and the fetchEnd of another resource.
MsgKinds == {"ignored", "fetchStart", "fetchEndTarget", "fetchEndOther"}

HasFetchEnd(kind) == kind \in {"fetchEndTarget", "fetchEndOther"}
HasFetchStart(kind) == kind = "fetchStart"
\* event.response.url === location.href
IsTarget(kind) == kind = "fetchEndTarget"

\* An emission: the topic and the message or element it is about (0: the scan).
Ev(topic, id) == [topic |-> topic, id |-> id]

\* Errors are identified by where they were raised: the emission whose
\* listener threw, the evaluateInPage calls, or the setFetchType call of a message.
Err(src, id) == [src |-> src, id |-> id]
NoErr == Err("none", 0)

\* The errors the catch blocks may still receive.
CanThrow == Cardinality(thrown) < MaxThrows

\* notifyFetch: the guard of the queueing branch,
\* !this._document && event.response.url !== location.href.
QueuesFetchEnd(kind) == ~document /\ ~IsTarget(kind)

\* reject(err) of the promise collect() returned: settles it only while pending.
\* this._onComplete(err) with the initial no-op _onComplete does nothing.
OnCompleteErr(err) ==
    /\ thrown' = thrown \cup {err}
    /\ IF onComplete = "set" /\ collectState = "pending"
       THEN /\ collectState' = "rejected"
            /\ collectErr' = err
       ELSE UNCHANGED <<collectState, collectErr>>

\* this._onComplete(null, resource) as installed by collect(): calls
\* emitAsync('scan::end') and awaits it.  The initial no-op does nothing.
OnCompleteOk ==
    IF onComplete = "set"
    THEN /\ emitted' = Append(emitted, Ev("scan::end", 0))
         /\ scanEnd' = "emitting"
    ELSE UNCHANGED <<emitted, scanEnd>>

InitWeb ==
    /\ collectState = "idle"
    /\ collectErr = NoErr
    /\ onComplete = "noop"
    /\ document = FALSE
    /\ fetchEndQueue = <<>>
    /\ msgs = <<>>
    /\ load = "waiting"
    /\ flushIdx = 0
    /\ travIdx = 0
    /\ scanEnd = "none"
    /\ emitted = <<>>
    /\ thrown = {}
    /\ sent = <<>>

\* The connector's actions leave the other components alone.
WebOnly == UNCHANGED <<cliVars, loaderVars, httpsVars, busVars, engineVars, localVars,
                 execVars, sharedVars, compVars, cssVars>>

\* The CLI action before it is called, for the specifications of the other
\* components.
IdleCLI ==
    /\ cliPc = "idle"
    /\ targets = <<>>
    /\ configFound = FALSE
    /\ userConfig = [hasThreshold |-> FALSE, severityThreshold |-> 0]
    /\ config = "user"
    /\ attempts = 0
    /\ created = <<>>
    /\ analyzerError = "none"
    /\ errorLog = <<>>
    /\ asked = <<>>
    /\ installs = <<>>
    /\ exitCode = 0
    /\ ended = <<>>
    /\ printed = <<>>
    /\ analyzeOutcome = "none"
    /\ returned = "pending"

\* The resource loader of a jsdom connector that has fetched nothing yet.
InitLoader ==
    /\ fetchedHrefs = {}
    /\ fetches = <<>>
    /\ serverEmitted = <<>>

IdleLoader == InitLoader

\* A url: its scheme and its path on the one host of the model; NoUrl is the
\* unset `target`.
Url(scheme, path) == [scheme |-> scheme, path |-> path]
NoUrl == Url("none", "")

\* The https-only hint after its constructor.
InitHttps ==
    /\ target = NoUrl
    /\ targetIsServedOverHTTPS = FALSE
    /\ reportedUrls = {}
    /\ hintReports = <<>>
    /\ delivered = 0

IdleHttps == InitHttps

\* An engine on which analyze() has not been called.
InitEngine ==
    /\ enginePhase = "Idle"
    /\ connectorCollect = "none"
    /\ hintsTimer = "off"
    /\ analyzePromise = "none"
    /\ closeCalls = 0
    /\ engineLog = <<>>
    /\ outcomes = <<>>

IdleEngine == InitEngine

\* An http-compression hint that has not been constructed.
IdleComp ==
    /\ htmlOptions = [gzip |-> TRUE, zopfli |-> TRUE, brotli |-> TRUE]
    /\ resourceOptions = [gzip |-> TRUE, zopfli |-> TRUE, brotli |-> TRUE]
    /\ validations = <<>>
    /\ compLog = <<>>

\* A CSS compat hint that has received no style sheet.
IdleCss ==
    /\ compatProp = <<>>
    /\ compatValue = <<>>
    /\ cssBlock = <<>>
    /\ cssPc = "idle"
    /\ cssReported = <<>>

\* An extension that has not loaded webhint.
IdleShared ==
    /\ now = 0
    /\ sharedPackage = FALSE
    /\ lastUpdate = -1
    /\ loads = <<>>
    /\ updates = <<>>
    /\ sharedInstalls = <<>>
    /\ timers = 0

\* The CLI module before it is loaded.
IdleExec ==
    /\ cliActions = <<>>
    /\ execCalls = <<>>
    /\ loggedErrors = <<>>
    /\ notified = <<>>

\* A local connector that has not been constructed.
IdleLocal ==
    /\ localPc = "idle"
    /\ localTarget = "none"
    /\ watch = FALSE
    /\ files = {}
    /\ toFetch = {}
    /\ localEmitted = <<>>
    /\ localCollect = "none"
    /\ localError = "none"
    /\ watcher = "none"
    /\ handlers = <<>>

\* A new engine: no listener registered, nothing emitted.
InitBus ==
    /\ registry = <<>>
    /\ dispatches = <<>>
    /\ busLog = <<>>
    /\ emits = 0

IdleBus == InitBus

\* The connector as it is before its construction, for the specifications of
\* the other components.
IdleWeb == InitWeb

\* collect(target): calls emitAsync('scan::start') and awaits it.
CollectCall ==
    /\ collectState = "idle"
    /\ collectState' = "scanStart"
    /\ emitted' = Append(emitted, Ev("scan::start", 0))
    /\ UNCHANGED <<collectErr, onComplete, document, fetchEndQueue, msgs, load,
                   flushIdx, travIdx, scanEnd, thrown, sent>>
    /\ WebOnly

\* scan::start listeners settled: send {ready: true}, install _onComplete,
\* return the pending promise.
ScanStartResolves ==
    /\ collectState = "scanStart"
    /\ collectState' = "pending"
    /\ onComplete' = "set"
    /\ sent' = Append(sent, "ready")
    /\ UNCHANGED <<collectErr, document, fetchEndQueue, msgs, load, flushIdx,
                   travIdx, scanEnd, emitted, thrown>>
    /\ WebOnly

\* A scan::start listener threw: the async collect() rejects with that error.
ScanStartRejects ==
    /\ collectState = "scanStart"
    /\ CanThrow
    /\ collectState' = "rejected"
    /\ collectErr' = Err("scan::start", 0)
    /\ thrown' = thrown \cup {Err("scan::start", 0)}
    /\ UNCHANGED <<onComplete, document, fetchEndQueue, msgs, load, flushIdx,
                   travIdx, scanEnd, emitted, sent>>
    /\ WebOnly

\* browser.runtime.onMessage listener, up to its first pending await.
\* Extension resources and responses handled by the Fetcher are ignored.
\* notifyFetch queues the fetchEnd of a non-target resource while there is no
\* DOM snapshot; otherwise it calls setFetchType and awaits it.  A fetchStart
\* calls emitAsync('fetch::start') and awaits it.
MessageArrives(kind) ==
    /\ Len(msgs) < MaxMsgs
    /\ LET id == Len(msgs) + 1
           queued == HasFetchEnd(kind) /\ QueuesFetchEnd(kind)
       IN /\ fetchEndQueue' = IF queued THEN Append(fetchEndQueue, id) ELSE fetchEndQueue
          /\ emitted' = IF HasFetchStart(kind)
                        THEN Append(emitted, Ev("fetch::start", id))
                        ELSE emitted
          /\ msgs' = Append(msgs,
                [kind |-> kind,
                 pc |-> IF HasFetchStart(kind) THEN "start"
                        ELSE IF HasFetchEnd(kind) /\ ~queued THEN "type"
                        ELSE "done"])
    /\ UNCHANGED <<collectState, collectErr, onComplete, document, load, flushIdx,
                   travIdx, scanEnd, thrown, sent>>
    /\ WebOnly

\* notifyFetch: setFetchType(event) resolved; emitAsync(`fetch::end::${type}`).
FetchTypeResolves(i) ==
    /\ i \in 1..Len(msgs)
    /\ msgs[i].pc = "type"
    /\ emitted' = Append(emitted, Ev("fetch::end", i))
    /\ msgs' = [msgs EXCEPT ![i].pc = "end"]
    /\ UNCHANGED <<collectState, collectErr, onComplete, document, fetchEndQueue,
                   load, flushIdx, travIdx, scanEnd, thrown, sent>>
    /\ WebOnly

\* The emitAsync a message listener awaits resolved: the listener returns.
HandlerEmitResolves(i) ==
    /\ i \in 1..Len(msgs)
    /\ msgs[i].pc \in {"end", "start"}
    /\ msgs' = [msgs EXCEPT ![i].pc = "done"]
    /\ UNCHANGED <<collectState, collectErr, onComplete, document, fetchEndQueue,
                   load, flushIdx, travIdx, scanEnd, emitted, thrown, sent>>
    /\ WebOnly

\* setFetchType rejected, or a listener of the awaited event threw:
\* catch (err) { this._onComplete(err) }.
HandlerRejects(i) ==
    /\ i \in 1..Len(msgs)
    /\ msgs[i].pc \in {"type", "end", "start"}
    /\ CanThrow
    /\ msgs' = [msgs EXCEPT ![i].pc = "done"]
    /\ OnCompleteErr(CASE msgs[i].pc = "type" -> Err("setFetchType", i)
                       [] msgs[i].pc = "end" -> Err("fetch::end", i)
                       [] OTHER -> Err("fetch::start", i))
    /\ UNCHANGED <<onComplete, document, fetchEndQueue, load, flushIdx, travIdx,
                   scanEnd, emitted, sent>>
    /\ WebOnly

\* The timer set by onLoad fires (after the load event and waitFor ms):
\* evaluateInPage(createHelpers) is called and awaited.
LoadTimerFires ==
    /\ load = "waiting"
    /\ load' = "helpers"
    /\ UNCHANGED <<collectState, collectErr, onComplete, document, fetchEndQueue,
                   msgs, flushIdx, travIdx, scanEnd, emitted, thrown, sent>>
    /\ WebOnly

\* evaluateInPage(createHelpers) resolved:
\* evaluateInPage('__webhint.snapshotDocument(document)') is called and
\* awaited.
HelpersResolve ==
    /\ load = "helpers"
    /\ load' = "snapshot"
    /\ UNCHANGED <<collectState, collectErr, onComplete, document, fetchEndQueue,
                   msgs, flushIdx, travIdx, scanEnd, emitted, thrown, sent>>
    /\ WebOnly

\* A timer callback that goes from the snapshot to traverse().
SnapshotSkipsQueue ==
    /\ load = "snapshot"
    /\ document' = TRUE
    /\ load' = "traverse"
    /\ UNCHANGED <<collectState, collectErr, onComplete, fetchEndQueue, msgs,
                   flushIdx, travIdx, scanEnd, emitted, thrown, sent>>
    /\ WebOnly

\* The snapshot arrived: this._document is set and sendFetchEndEvents starts
\* with the first queued event (notifyFetch calls setFetchType); with an empty
\* queue traverse() starts.
SnapshotResolves ==
    /\ load = "snapshot"
    /\ document' = TRUE
    /\ IF fetchEndQueue = <<>>
       THEN load' = "traverse" /\ UNCHANGED flushIdx
       ELSE load' = "flushType" /\ flushIdx' = 1
    /\ UNCHANGED <<collectState, collectErr, onComplete, fetchEndQueue, msgs,
                   travIdx, scanEnd, emitted, thrown, sent>>
    /\ WebOnly

\* sendFetchEndEvents: setFetchType of the queued event resolved;
\* emitAsync(`fetch::end::${type}`) is called and awaited.
FlushTypeResolves ==
    /\ load = "flushType"
    /\ load' = "flushEmit"
    /\ emitted' = Append(emitted, Ev("fetch::end", fetchEndQueue[flushIdx]))
    /\ UNCHANGED <<collectState, collectErr, onComplete, document, fetchEndQueue,
                   msgs, flushIdx, travIdx, scanEnd, thrown, sent>>
    /\ WebOnly

\* sendFetchEndEvents: the queued event's listeners settled; next event of the
\* queue, or traverse() once the queue is exhausted.
FlushEmitResolves ==
    /\ load = "flushEmit"
    /\ IF flushIdx < Len(fetchEndQueue)
       THEN load' = "flushType" /\ flushIdx' = flushIdx + 1
       ELSE load' = "traverse" /\ UNCHANGED flushIdx
    /\ UNCHANGED <<collectState, collectErr, onComplete, document, fetchEndQueue,
                   msgs, travIdx, scanEnd, emitted, thrown, sent>>
    /\ WebOnly

\* traverse(): emitAsync(`element::${tag}`) for the next element of the snapshot.
TraverseElement ==
    /\ load = "traverse"
    /\ travIdx < MaxElements
    /\ travIdx' = travIdx + 1
    /\ load' = "element"
    /\ emitted' = Append(emitted, Ev("element", travIdx + 1))
    /\ UNCHANGED <<collectState, collectErr, onComplete, document, fetchEndQueue,
                   msgs, flushIdx, scanEnd, thrown, sent>>
    /\ WebOnly

\* The element's listeners settled: traverse() goes on.
ElementResolves ==
    /\ load = "element"
    /\ load' = "traverse"
    /\ UNCHANGED <<collectState, collectErr, onComplete, document, fetchEndQueue,
                   msgs, flushIdx, travIdx, scanEnd, emitted, thrown, sent>>
    /\ WebOnly

\* traverse() resolved (no element left): emitAsync('can-evaluate::script').
TraverseDone ==
    /\ load = "traverse"
    /\ load' = "canEvaluate"
    /\ emitted' = Append(emitted, Ev("can-evaluate::script", 0))
    /\ UNCHANGED <<collectState, collectErr, onComplete, document, fetchEndQueue,
                   msgs, flushIdx, travIdx, scanEnd, thrown, sent>>
    /\ WebOnly

\* can-evaluate::script settled: this._onComplete(null, resource).
CanEvaluateResolves ==
    /\ load = "canEvaluate"
    /\ load' = "done"
    /\ OnCompleteOk
    /\ UNCHANGED <<collectState, collectErr, onComplete, document, fetchEndQueue,
                   msgs, flushIdx, travIdx, thrown, sent>>
    /\ WebOnly

\* evaluateInPage or setFetchType rejected, or a listener of the event the
\* timer callback awaits threw: catch (err) { this._onComplete(err) }.
LoadStepRejects ==
    /\ load \in {"helpers", "snapshot", "flushType", "flushEmit", "element", "canEvaluate"}
    /\ CanThrow
    /\ load' = "failed"
    /\ OnCompleteErr(CASE load \in {"helpers", "snapshot"} -> Err("evaluateInPage", 0)
                       [] load = "flushType" -> Err("setFetchType", fetchEndQueue[flushIdx])
                       [] load = "flushEmit" -> Err("fetch::end", fetchEndQueue[flushIdx])
                       [] load = "element" -> Err("element", travIdx)
                       [] OTHER -> Err("can-evaluate::script", 0))
    /\ UNCHANGED <<onComplete, document, fetchEndQueue, msgs, flushIdx, travIdx,
                   scanEnd, emitted, sent>>
    /\ WebOnly

\* _onComplete: scan::end settled; resolve() settles the promise if it is
\* still pending, then {done: true} is sent.
ScanEndResolves ==
    /\ scanEnd = "emitting"
    /\ scanEnd' = "done"
    /\ collectState' = IF collectState = "pending" THEN "resolved" ELSE collectState
    /\ sent' = Append(sent, "done")
    /\ UNCHANGED <<collectErr, onComplete, document, fetchEndQueue, msgs, load,
                   flushIdx, travIdx, emitted, thrown>>
    /\ WebOnly

\* _onComplete: a scan::end listener threw; catch (e) { reject(e) }.
ScanEndRejects ==
    /\ scanEnd = "emitting"
    /\ CanThrow
    /\ scanEnd' = "failed"
    /\ thrown' = thrown \cup {Err("scan::end", 0)}
    /\ IF collectState = "pending"
       THEN collectState' = "rejected" /\ collectErr' = Err("scan::end", 0)
       ELSE UNCHANGED <<collectState, collectErr>>
    /\ UNCHANGED <<onComplete, document, fetchEndQueue, msgs, load, flushIdx,
                   travIdx, emitted, sent>>
    /\ WebOnly

NextWeb ==
    \/ CollectCall
    \/ ScanStartResolves
    \/ ScanStartRejects
    \/ \E kind \in MsgKinds : MessageArrives(kind)
    \/ \E i \in 1..MaxMsgs : FetchTypeResolves(i)
    \/ \E i \in 1..MaxMsgs : HandlerEmitResolves(i)
    \/ \E i \in 1..MaxMsgs : HandlerRejects(i)
    \/ LoadTimerFires
    \/ HelpersResolve
    \/ SnapshotResolves
    \/ FlushTypeResolves
    \/ FlushEmitResolves
    \/ TraverseElement
    \/ ElementResolves
    \/ TraverseDone
    \/ CanEvaluateResolves
    \/ LoadStepRejects
    \/ ScanEndResolves
    \/ ScanEndRejects

\* Only the connector runs.
StartWeb == InitWeb /\ IdleCLI /\ IdleLoader /\ IdleHttps /\ IdleBus /\ IdleEngine /\ IdleLocal
    /\ IdleExec
    /\ IdleShared
    /\ IdleComp
    /\ IdleCss

SpecWeb == StartWeb /\ [][NextWeb]_vars

(***************************************************************************)
(* Claims about WebExtensionConnector, checked under SpecWeb.              *)
(***************************************************************************)

\* The scan is in a terminal state: collect() has resolved (scan::end was
\* emitted and its listeners settled) or has rejected.
Terminal == collectState \in {"resolved", "rejected"}

\* C2: once the scan is in a terminal state the connector calls emitAsync for
\* no further event (fetch::start, fetch::end::*, element::*,
\* can-evaluate::script, scan::end), whatever messages arrive or timers fire.
C2_NoEventAfterTerminal == [][Terminal => emitted' = emitted]_vars

\* C3: every fetch::start, fetch::end::*, element::* and can-evaluate::script
\* emission of the scan comes after the emission of scan::start.
C3_ScanStartFirst ==
    \A k \in 1..Len(emitted) :
        emitted[k].topic \in {"fetch::start", "fetch::end", "element", "can-evaluate::script"}
            => \E j \in 1..(k - 1) : emitted[j].topic = "scan::start"

\* C4: whenever an awaited emitAsync (or another awaited step) has rejected
\* and the connector caught the error, the promise of collect() is rejected,
\* with an error that was thrown; no error is dropped.
C4_ErrorRejectsCollect ==
    thrown # {} => (collectState = "rejected" /\ collectErr \in thrown)

\* C10: fetch::end::* events are emitted in the order in which their fetchEnd
\* messages were received (message ids grow in order of arrival).
C10_FetchEndInArrivalOrder ==
    \A k1, k2 \in 1..Len(emitted) :
        (k1 < k2 /\ emitted[k1].topic = "fetch::end" /\ emitted[k2].topic = "fetch::end")
            => emitted[k1].id < emitted[k2].id

\* The emissions of fetch::end::* for message i, and the queued messages.
FetchEndsOf(i) == {k \in 1..Len(emitted) : emitted[k] = Ev("fetch::end", i)}
Queued == {fetchEndQueue[q] : q \in 1..Len(fetchEndQueue)}
Traversing == load \in {"traverse", "element", "canEvaluate", "done"}

\* C25: the fetchEnd of another resource that arrives before the snapshot is
\* queued and not dispatched then; the queue is in arrival order and is
\* dispatched in that order, each event once, after the snapshot and before
\* the first element::* event; once the traversal runs every queued event
\* has been dispatched.  The target's fetchEnd is never queued.
C25_QueuedUntilSnapshot ==
    /\ \A q1, q2 \in 1..Len(fetchEndQueue) : q1 < q2 => fetchEndQueue[q1] < fetchEndQueue[q2]
    /\ \A i \in 1..Len(msgs) :
           /\ Cardinality(FetchEndsOf(i)) <= 1
           /\ i \in Queued =>
                  /\ msgs[i].kind = "fetchEndOther"
                  /\ msgs[i].pc = "done"
                  /\ ~document => FetchEndsOf(i) = {}
                  /\ Traversing => FetchEndsOf(i) # {}
                  /\ \A k \in FetchEndsOf(i) : \A e \in 1..k : emitted[e].topic # "element"
                  /\ \A j \in Queued : \A k \in FetchEndsOf(i) : \A kj \in FetchEndsOf(j) :
                         i < j => k < kj
           /\ (msgs[i].kind = "fetchEndOther" /\ i \notin Queued) => document
           /\ msgs[i].kind = "fetchEndTarget" =>
                  /\ i \notin Queued
                  /\ (msgs[i].pc = "type" \/ FetchEndsOf(i) # {}
                      \/ Err("setFetchType", i) \in thrown)

C25_Witness ==
    /\ Len(fetchEndQueue) = 2
    /\ \A i \in Queued : FetchEndsOf(i) # {}
    /\ \E k \in 1..Len(emitted) : emitted[k].topic = "element"

\* C26: can-evaluate::script comes after every element::* event, scan::end
\* after the can-evaluate::script listeners settled and at most once;
\* collect() resolves and {done: true} is sent only after the scan::end
\* listeners settled; scan::end is not emitted once collect() has rejected.
C26_CompletionOrder ==
    /\ [](/\ \A k \in 1..Len(emitted) :
                 /\ emitted[k].topic = "can-evaluate::script" =>
                        \A e \in k..Len(emitted) : emitted[e].topic # "element"
                 /\ emitted[k].topic = "scan::end" =>
                        /\ load = "done"
                        /\ \E e \in 1..k : emitted[e].topic = "can-evaluate::script"
                        /\ \A e \in 1..Len(emitted) : emitted[e].topic = "scan::end" => e = k
          /\ collectState = "resolved" => scanEnd = "done"
          /\ (\E n \in 1..Len(sent) : sent[n] = "done") => scanEnd = "done")
    /\ [][collectState = "rejected" =>
              \A k \in 1..Len(emitted') : emitted'[k].topic = "scan::end" => k <= Len(emitted)]_vars

(***************************************************************************)
(* CLI analyze action (packages/hint/src/lib/cli/analyze.ts)               *)
(***************************************************************************)

\* The Severity enum of @hint/utils-types, with the numbers the program runs
\* with: off is the lowest value of the ordinal.  (Its member `default` is a
\* placeholder for a hint's own severity and is no threshold.)
SeverityOff == 0
SeverityInformation == 1
SeverityHint == 2
SeverityWarning == 3
SeverityError == 4
Severities == SeverityOff..SeverityError
\* The severities of the Problems a scan reports.
ProblemSeverities == SeverityInformation..SeverityError

\* Sequences over S of length at most n.
SeqUpTo(S, n) == UNION {[1..k -> S] : k \in 0..n}

\* areFiles / anyFile
areFiles(ts) == \A i \in 1..Len(ts) : ts[i] = "file:"
anyFile(ts) == \E i \in 1..Len(ts) : ts[i] = "file:"

\* getDefaultConfiguration throws when file targets are mixed with urls.
\* A getDefaultConfiguration without the check of mixed targets.
DefaultConfigNeverThrows(ts) == FALSE

DefaultConfigThrows(ts) == ~areFiles(ts) /\ anyFile(ts)
\* getDefaultConfiguration: the configuration the default extends.
getDefaultConfiguration(ts) == IF areFiles(ts) THEN "development" ELSE "web-recommended"

\* hasIssues: const threshold = userConfig.severityThreshold || Severity.error
\* (|| takes the right operand when the left one is undefined or 0, the
\* number of Severity.off).
Threshold(uc) ==
    IF uc.hasThreshold /\ uc.severityThreshold # 0
    THEN uc.severityThreshold
    ELSE SeverityError

\* hasIssues(reports): some result has severity >= threshold.
hasIssues(reports, uc) ==
    \E i \in 1..Len(reports) : reports[i] >= Threshold(uc)

\* The action is called: the targets, the user's configuration file (found or
\* not, with or without a severityThreshold) are the inputs.
InitCLI ==
    /\ cliPc = "start"
    /\ targets \in SeqUpTo({"file:", "http:"}, MaxTargets)
    /\ configFound \in BOOLEAN
    /\ userConfig \in [hasThreshold : BOOLEAN, severityThreshold : Severities]
    /\ (~userConfig.hasThreshold => userConfig.severityThreshold = 0)
    /\ (~configFound => ~userConfig.hasThreshold)
    /\ config = "user"
    /\ attempts = 0
    /\ created = <<>>
    /\ analyzerError = "none"
    /\ errorLog = <<>>
    /\ asked = <<>>
    /\ installs = <<>>
    /\ exitCode = 0
    /\ ended = <<>>
    /\ printed = <<>>
    /\ analyzeOutcome = "none"
    /\ returned = "pending"

CLIOnly == UNCHANGED <<webVars, loaderVars, httpsVars, busVars, engineVars, localVars,
                 execVars, sharedVars, compVars, cssVars>>

\* The action up to getAnalyzer: no target returns false; loadUserConfig
\* takes the user's configuration or, when there is none, the default one
\* (getDefaultConfiguration throws for mixed targets: the action rejects).
LoadUserConfig ==
    /\ cliPc = "start"
    /\ IF Len(targets) = 0
       THEN cliPc' = "done" /\ returned' = "false" /\ UNCHANGED config
       ELSE IF ~configFound /\ DefaultConfigThrows(targets)
       THEN cliPc' = "done" /\ returned' = "threw" /\ UNCHANGED config
       ELSE /\ cliPc' = "createAnalyzer"
            /\ config' = IF configFound THEN "user" ELSE getDefaultConfiguration(targets)
            /\ UNCHANGED returned
    /\ UNCHANGED <<targets, configFound, userConfig, attempts, asked, installs,
                   exitCode, ended, printed, analyzeOutcome, created,
                   analyzerError, errorLog>>
    /\ CLIOnly

\* getAnalyzer taking every error of createAnalyzer for a ResourceError.
CreateAnalyzerAlwaysAsks(outcome) ==
    /\ cliPc = "createAnalyzer"
    /\ attempts < MaxAttempts
    /\ attempts' = attempts + 1
    /\ created' = Append(created, outcome)
    /\ IF outcome = "ok"
       THEN cliPc' = "analyze" /\ analyzeOutcome' = "running"
       ELSE cliPc' = "askInstall" /\ UNCHANGED analyzeOutcome
    /\ UNCHANGED <<targets, configFound, userConfig, config, asked, installs,
                   exitCode, ended, printed, returned, analyzerError, errorLog>>
    /\ UNCHANGED <<webVars, loaderVars, httpsVars, busVars, engineVars, localVars,
                 execVars, sharedVars, compVars, cssVars>>

\* getAnalyzer: createAnalyzer(userConfig, options) returns an analyzer or
\* throws.  A ConfigurationError asks the user about the default
\* configuration, a ResourceError about installing packages; a HintError, a
\* ConnectorError or another error is logged and rethrown, and the action's
\* catch returns false.
CreateAnalyzer(outcome) ==
    /\ cliPc = "createAnalyzer"
    /\ attempts < MaxAttempts
    /\ attempts' = attempts + 1
    /\ created' = Append(created, outcome)
    /\ CASE outcome = "ok" ->
              /\ cliPc' = "analyze"
              /\ analyzeOutcome' = "running"
              /\ UNCHANGED <<returned, analyzerError, errorLog>>
         [] outcome = "ConfigurationError" ->
              /\ cliPc' = "askDefault"
              /\ UNCHANGED <<analyzeOutcome, returned, analyzerError, errorLog>>
         [] outcome = "ResourceError" ->
              /\ cliPc' = "askInstall"
              /\ UNCHANGED <<analyzeOutcome, returned, analyzerError, errorLog>>
         [] OTHER ->
              /\ cliPc' = "done"
              /\ returned' = "false"
              /\ analyzerError' = outcome
              /\ errorLog' = Append(errorLog, outcome)
              /\ UNCHANGED analyzeOutcome
    /\ UNCHANGED <<targets, configFound, userConfig, config, asked, installs,
                   exitCode, ended, printed>>
    /\ CLIOnly

CreateOutcomes == {"ok", "ConfigurationError", "ResourceError", "HintError",
                   "ConnectorError", "Error"}

\* The error the catch block of getAnalyzer holds: the one the last
\* createAnalyzer call threw.
CaughtError == created[Len(created)]

\* askUserToUseDefaultConfiguration: on yes getDefaultConfiguration(targets)
\* (which may throw) and getAnalyzer again with it; on no the error is rethrown.
AnswerUseDefault(yes) ==
    /\ cliPc = "askDefault"
    /\ asked' = Append(asked, <<"default", yes>>)
    /\ IF yes /\ ~DefaultConfigThrows(targets)
       THEN /\ cliPc' = "createAnalyzer"
            /\ config' = getDefaultConfiguration(targets)
            /\ UNCHANGED <<returned, analyzerError>>
       ELSE /\ cliPc' = "done"
            /\ returned' = "false"
            /\ analyzerError' = IF yes THEN "MixedTargets" ELSE CaughtError
            /\ UNCHANGED config
    /\ UNCHANGED <<targets, configFound, userConfig, attempts, installs, exitCode,
                   ended, printed, analyzeOutcome, created, errorLog>>
    /\ CLIOnly

\* askToInstallPackages going on to installPackages whatever the answer.
AnswerInstallIgnored(yes) ==
    /\ cliPc = "askInstall"
    /\ asked' = Append(asked, <<"install", yes>>)
    /\ cliPc' = "installMissing"
    /\ UNCHANGED <<targets, configFound, userConfig, config, attempts, installs,
                   exitCode, ended, printed, analyzeOutcome, created, errorLog,
                   returned, analyzerError>>
    /\ UNCHANGED <<webVars, loaderVars, httpsVars, busVars, engineVars, localVars,
                 execVars, sharedVars, compVars, cssVars>>

\* askToInstallPackages: askUserToInstallDependencies; on yes
\* installPackages(missingPackages) is called, on no the error is rethrown.
AnswerInstall(yes) ==
    /\ cliPc = "askInstall"
    /\ asked' = Append(asked, <<"install", yes>>)
    /\ IF yes
       THEN cliPc' = "installMissing" /\ UNCHANGED <<returned, analyzerError>>
       ELSE cliPc' = "done" /\ returned' = "false" /\ analyzerError' = CaughtError
    /\ UNCHANGED <<targets, configFound, userConfig, config, attempts, installs,
                   exitCode, ended, printed, analyzeOutcome, created, errorLog>>
    /\ CLIOnly

\* installPackages(missingPackages) settled: on success
\* installPackages(incompatiblePackages) is called, else the error is rethrown.
InstallMissing(ok) ==
    /\ cliPc = "installMissing"
    /\ installs' = Append(installs, <<"missing", ok>>)
    /\ IF ok
       THEN cliPc' = "installIncompatible" /\ UNCHANGED <<returned, analyzerError>>
       ELSE cliPc' = "done" /\ returned' = "false" /\ analyzerError' = CaughtError
    /\ UNCHANGED <<targets, configFound, userConfig, config, attempts, asked,
                   exitCode, ended, printed, analyzeOutcome, created, errorLog>>
    /\ CLIOnly

\* installPackages(incompatiblePackages) settled: on success getAnalyzer is
\* called again with the same configuration, else the error is rethrown.
InstallIncompatible(ok) ==
    /\ cliPc = "installIncompatible"
    /\ installs' = Append(installs, <<"incompatible@latest", ok>>)
    /\ IF ok
       THEN cliPc' = "createAnalyzer" /\ UNCHANGED <<returned, analyzerError>>
       ELSE cliPc' = "done" /\ returned' = "false" /\ analyzerError' = CaughtError
    /\ UNCHANGED <<targets, configFound, userConfig, config, attempts, asked,
                   exitCode, ended, printed, analyzeOutcome, created, errorLog>>
    /\ CLIOnly

\* A targetEndCallback that prints only the problems at or above the
\* threshold.
TargetEndFiltered(problems) ==
    /\ cliPc = "analyze"
    /\ Len(ended) < Len(targets)
    /\ exitCode' = IF hasIssues(problems, userConfig) THEN 1 ELSE exitCode
    /\ ended' = Append(ended, problems)
    /\ printed' = Append(printed,
                         SelectSeq(problems, LAMBDA sev : sev >= Threshold(userConfig)))
    /\ UNCHANGED <<cliPc, targets, configFound, userConfig, config, attempts,
                   asked, installs, analyzeOutcome, returned,
                   created, analyzerError, errorLog>>
    /\ UNCHANGED <<webVars, loaderVars, httpsVars, busVars, engineVars, localVars,
                 execVars, sharedVars, compVars, cssVars>>

\* targetEndCallback(end): hasIssues(end.problems) sets exitCode to 1, then
\* print hands end.problems to webhint.format.
TargetEnd(problems) ==
    /\ cliPc = "analyze"
    /\ Len(ended) < Len(targets)
    /\ exitCode' = IF hasIssues(problems, userConfig) THEN 1 ELSE exitCode
    /\ ended' = Append(ended, problems)
    /\ printed' = Append(printed, problems)
    /\ UNCHANGED <<cliPc, targets, configFound, userConfig, config, attempts,
                   asked, installs, analyzeOutcome, returned,
                   created, analyzerError, errorLog>>
    /\ CLIOnly

\* await webhint.analyze(...) resolved: return exitCode === 0.
AnalyzeResolves ==
    /\ cliPc = "analyze"
    /\ Len(ended) = Len(targets)
    /\ cliPc' = "done"
    /\ analyzeOutcome' = "resolved"
    /\ returned' = IF exitCode = 0 THEN "true" ELSE "false"
    /\ UNCHANGED <<targets, configFound, userConfig, config, attempts, asked,
                   installs, exitCode, ended, printed, created,
                   analyzerError, errorLog>>
    /\ CLIOnly

\* The action without the try/catch around webhint.analyze: it rejects.
AnalyzeRejectsUncaught ==
    /\ cliPc = "analyze"
    /\ cliPc' = "done"
    /\ analyzeOutcome' = "rejected"
    /\ returned' = "threw"
    /\ UNCHANGED <<targets, configFound, userConfig, config, attempts, asked,
                   installs, ended, printed, created, analyzerError, exitCode,
                   errorLog>>
    /\ UNCHANGED <<webVars, loaderVars, httpsVars, busVars, engineVars, localVars,
                 execVars, sharedVars, compVars, cssVars>>

\* await webhint.analyze(...) rejected: the catch sets exitCode to 1 and
\* logs the error; return exitCode === 0.
AnalyzeRejects ==
    /\ cliPc = "analyze"
    /\ cliPc' = "done"
    /\ analyzeOutcome' = "rejected"
    /\ exitCode' = 1
    /\ returned' = "false"
    /\ errorLog' = Append(errorLog, "analyze")
    /\ UNCHANGED <<targets, configFound, userConfig, config, attempts, asked,
                   installs, ended, printed, created, analyzerError>>
    /\ CLIOnly

NextCLI ==
    \/ LoadUserConfig
    \/ \E outcome \in CreateOutcomes : CreateAnalyzer(outcome)
    \/ \E yes \in BOOLEAN : AnswerUseDefault(yes)
    \/ \E yes \in BOOLEAN : AnswerInstall(yes)
    \/ \E ok \in BOOLEAN : InstallMissing(ok)
    \/ \E ok \in BOOLEAN : InstallIncompatible(ok)
    \/ \E problems \in SeqUpTo(ProblemSeverities, MaxProblems) : TargetEnd(problems)
    \/ AnalyzeResolves
    \/ AnalyzeRejects

\* Only the CLI action runs.
StartCLI == InitCLI /\ IdleWeb /\ IdleLoader /\ IdleHttps /\ IdleBus /\ IdleEngine /\ IdleLocal
    /\ IdleExec
    /\ IdleShared
    /\ IdleComp
    /\ IdleCss

SpecCLI == StartCLI /\ [][NextCLI]_vars

(***************************************************************************)
(* Claims about the CLI analyze action, checked under SpecCLI.             *)
(***************************************************************************)

\* The threshold the claim resolves: userConfig.severityThreshold, or error
\* when none is configured.
ResolvedThreshold ==
    IF userConfig.hasThreshold THEN userConfig.severityThreshold ELSE SeverityError

\* C1: once webhint.analyze() has resolved, the action returns false if and
\* only if some Problem passed to a targetEndCallback has a severity at or
\* above the resolved threshold, for every threshold of the ordinal.
C1_FailsIffAtOrAboveThreshold ==
    (cliPc = "done" /\ analyzeOutcome = "resolved")
        => ((returned = "false")
              <=> \E t \in 1..Len(ended) : \E i \in 1..Len(ended[t]) :
                      ended[t][i] >= ResolvedThreshold)

\* The errors of createAnalyzer that getAnalyzer offers a remedy for, and
\* the others.
Remediable == {"ConfigurationError", "ResourceError"}
Fatal == {"HintError", "ConnectorError", "Error"}

\* How many entries of sequence q are in set S.
Count(q, S) == Cardinality({k \in 1..Len(q) : q[k] \in S})

\* C11: webhint.analyze() is invoked only after a createAnalyzer call that
\* returned normally; a HintError, a ConnectorError or an untyped error of
\* createAnalyzer is rethrown with no prompt and no retry after it, and the
\* action resolves to false with no scan started.
C11_AnalyzeOnlyAfterCreate ==
    /\ analyzeOutcome # "none" => (Len(created) > 0 /\ CaughtError = "ok")
    /\ \A i \in 1..Len(created) :
           created[i] \in Fatal =>
               /\ i = Len(created)
               /\ cliPc = "done"
               /\ analyzerError = created[i]
               /\ returned = "false"
               /\ analyzeOutcome = "none"
               /\ ended = <<>>
               /\ Len(asked) = Count(created, Remediable)

\* createAnalyzer threw a HintError on the retry that followed a remedy.
C11_Witness ==
    /\ Len(created) = 2
    /\ created[1] \in Remediable
    /\ created[2] = "HintError"
    /\ returned = "false"

\* The parts of C12 about consent: installs follow a yes to the install
\* prompt, missing packages first and the incompatible ones only after the
\* missing ones were installed; the configuration changes during creation
\* only after the user confirmed the default; createAnalyzer is called
\* again only after a remedy succeeded.
OnlyWithConsent ==
    /\ Count(installs, {<<"missing", TRUE>>, <<"missing", FALSE>>})
           <= Count(asked, {<<"install", TRUE>>})
    /\ \A k \in 1..Len(installs) :
           IF installs[k][1] = "missing"
           THEN k = 1 \/ installs[k - 1][1] = "incompatible@latest"
           ELSE k > 1 /\ installs[k - 1] = <<"missing", TRUE>>
    /\ (attempts > 0
          /\ config # (IF configFound THEN "user" ELSE getDefaultConfiguration(targets)))
           => Count(asked, {<<"default", TRUE>>}) > 0
    /\ Len(created) <= 1 + Count(asked, {<<"default", TRUE>>})
                         + Count(installs, {<<"incompatible@latest", TRUE>>})

\* createAnalyzer's last call threw and the action is over.
CreationFailed == cliPc = "done" /\ Len(created) > 0 /\ CaughtError # "ok"

\* C12 as stated: no remedy without consent, and in every other case the
\* original error is rethrown and no scan is run.
C12_NoRemediationWithoutConsent ==
    /\ OnlyWithConsent
    /\ CreationFailed =>
           /\ analyzerError = CaughtError
           /\ analyzeOutcome = "none"
           /\ ended = <<>>

\* C12 amended: as above, but when the user accepted the default
\* configuration for targets that mix files and urls, getAnalyzer throws
\* the error of getDefaultConfiguration instead of the original one.
C12_Amended ==
    /\ OnlyWithConsent
    /\ CreationFailed =>
           /\ analyzerError \in {CaughtError, "MixedTargets"}
           /\ analyzerError = "MixedTargets" =>
                  /\ CaughtError = "ConfigurationError"
                  /\ asked[Len(asked)] = <<"default", TRUE>>
                  /\ DefaultConfigThrows(targets)
           /\ returned = "false"
           /\ analyzeOutcome = "none"
           /\ ended = <<>>

\* The user agreed to install, the missing packages were installed, the
\* incompatible ones failed: the ResourceError was rethrown.
C12_Witness ==
    /\ asked = <<<<"install", TRUE>>>>
    /\ installs = <<<<"missing", TRUE>>, <<"incompatible@latest", FALSE>>>>
    /\ CreationFailed
    /\ analyzerError = "ResourceError"

\* C13: when webhint.analyze() has rejected, the action has logged the
\* error and resolved to false; it did not throw.
C13_AnalyzeRejectionGivesFalse ==
    analyzeOutcome = "rejected" =>
        /\ cliPc = "done"
        /\ returned = "false"
        /\ Len(errorLog) > 0
        /\ errorLog[Len(errorLog)] = "analyze"

\* webhint.analyze() rejected after a target had ended.
C13_Witness ==
    /\ analyzeOutcome = "rejected"
    /\ Len(ended) > 0
    /\ cliPc = "done"

\* C21: every Problem of a target's result is handed to the formatters,
\* whatever its severity: what was printed is what the targets ended with,
\* target by target and in order; the threshold only decides the exit
\* status.
C21_AllProblemsPrinted ==
    /\ printed = ended
    /\ \A t \in 1..Len(ended) : \A i \in 1..Len(ended[t]) :
           \E j \in 1..Len(printed[t]) : printed[t][j] = ended[t][i]

\* A problem below the threshold was printed and the action returned true.
C21_Witness ==
    /\ cliPc = "done"
    /\ returned = "true"
    /\ \E t \in 1..Len(printed) : \E i \in 1..Len(printed[t]) :
           printed[t][i] < Threshold(userConfig)

\* The targets mix file: urls with other urls.
MixedTargets ==
    /\ \E i \in 1..Len(targets) : targets[i] = "file:"
    /\ \E i \in 1..Len(targets) : targets[i] # "file:"

\* The default configuration was needed: no user configuration was found
\* when the action loaded it, or the user accepted the default.
DefaultAtLoad == cliPc # "start" /\ Len(targets) > 0 /\ ~configFound
DefaultAccepted == \E k \in 1..Len(asked) : asked[k] = <<"default", TRUE>>

\* C30: when the default configuration is needed and the targets mix files
\* and urls, getDefaultConfiguration throws: at load the action rejects
\* before any createAnalyzer call; after the user accepted the default, the
\* error leaves getAnalyzer and no createAnalyzer call follows; either way
\* no analyzer was created and no scan was run.  Otherwise the default
\* extends 'development' for file targets and 'web-recommended' for urls.
C30_DefaultConfiguration ==
    /\ (DefaultAtLoad /\ MixedTargets) =>
           /\ cliPc = "done"
           /\ returned = "threw"
           /\ created = <<>>
           /\ analyzeOutcome = "none"
           /\ ended = <<>>
    /\ (DefaultAccepted /\ MixedTargets) =>
           /\ cliPc = "done"
           /\ analyzerError = "MixedTargets"
           /\ Len(created) > 0
           /\ CaughtError = "ConfigurationError"
           /\ \A k \in 1..Len(created) : created[k] # "ok"
           /\ analyzeOutcome = "none"
           /\ ended = <<>>
    /\ ((DefaultAtLoad \/ DefaultAccepted) /\ ~MixedTargets) =>
           config = IF \A i \in 1..Len(targets) : targets[i] = "file:"
                    THEN "development"
                    ELSE "web-recommended"

\* The user accepted the default configuration for a file and a url.
C30_Witness ==
    /\ configFound
    /\ DefaultAccepted
    /\ MixedTargets
    /\ analyzerError = "MixedTargets"

(***************************************************************************)
(* CustomResourceLoader.fetch (connector-jsdom)                            *)
(***************************************************************************)

\* The urls jsdom asks for: "" is the empty url; one is written with an
\* upper-case scheme and host.
Urls == {"", "https://a/x.js", "HTTPS://A/x.js", "https://a/y.css"}

\* new URL(url).href: scheme and host in lower case.
Href(url) == IF url = "HTTPS://A/x.js" THEN "https://a/x.js" ELSE url

LoaderOnly == UNCHANGED <<webVars, cliVars, httpsVars, busVars, engineVars, localVars,
                 execVars, sharedVars, compVars, cssVars>>

\* A fetch that does not look at fetchedHrefs.
FetchAgain(url) ==
    /\ Len(fetches) < MaxFetches
    /\ IF url = ""
       THEN /\ fetches' = Append(fetches,
                 [url |-> url, pc |-> "returned", request |-> "none",
                  promise |-> "resolved"])
            /\ UNCHANGED <<fetchedHrefs, serverEmitted>>
       ELSE /\ fetchedHrefs' = fetchedHrefs \cup {Href(url)}
            /\ serverEmitted' = Append(serverEmitted, Ev("fetch::start", Len(fetches) + 1))
            /\ fetches' = Append(fetches,
                 [url |-> Href(url), pc |-> "start", request |-> "none",
                  promise |-> "pending"])
    /\ LoaderOnly

\* fetch(url, options) up to its first pending await.  An empty url gives a
\* promise already resolved with null (its abort does nothing); a url whose
\* href is already in fetchedHrefs returns the value null, no promise.
\* Otherwise the href is added to fetchedHrefs and the promise's executor
\* calls emitAsync('fetch::start') and awaits it.
Fetch(url) ==
    /\ Len(fetches) < MaxFetches
    /\ IF url = ""
       THEN /\ fetches' = Append(fetches,
                 [url |-> url, pc |-> "returned", request |-> "none",
                  promise |-> "resolved"])
            /\ UNCHANGED <<fetchedHrefs, serverEmitted>>
       ELSE IF Href(url) \in fetchedHrefs
       THEN /\ fetches' = Append(fetches,
                 [url |-> Href(url), pc |-> "null", request |-> "none", promise |-> "none"])
            /\ UNCHANGED <<fetchedHrefs, serverEmitted>>
       ELSE /\ fetchedHrefs' = fetchedHrefs \cup {Href(url)}
            /\ serverEmitted' = Append(serverEmitted, Ev("fetch::start", Len(fetches) + 1))
            /\ fetches' = Append(fetches,
                 [url |-> Href(url), pc |-> "start", request |-> "none",
                  promise |-> "pending"])
    /\ LoaderOnly

\* fetch::start settled: this._connector.fetchContent(resourceUrl) is awaited.
FetchStartResolves(i) ==
    /\ i \in 1..Len(fetches)
    /\ fetches[i].pc = "start"
    /\ fetches' = [fetches EXCEPT ![i].pc = "content"]
    /\ UNCHANGED <<fetchedHrefs, serverEmitted>>
    /\ LoaderOnly

\* A fetch::start listener threw: the await is outside the try, the async
\* executor rejects and nobody settles the promise.
FetchStartRejects(i) ==
    /\ i \in 1..Len(fetches)
    /\ fetches[i].pc = "start"
    /\ fetches' = [fetches EXCEPT ![i].pc = "abandoned"]
    /\ UNCHANGED <<fetchedHrefs, serverEmitted>>
    /\ LoaderOnly

\* fetchContent resolved: getContentTypeData(...) is awaited.
ContentResolves(i) ==
    /\ i \in 1..Len(fetches)
    /\ fetches[i].pc = "content"
    /\ fetches' = [fetches EXCEPT ![i].pc = "contentType", ![i].request = "succeeded"]
    /\ UNCHANGED <<fetchedHrefs, serverEmitted>>
    /\ LoaderOnly

\* getContentTypeData resolved: emitAsync(`fetch::end::${type}`) is awaited.
ContentTypeResolves(i) ==
    /\ i \in 1..Len(fetches)
    /\ fetches[i].pc = "contentType"
    /\ serverEmitted' = Append(serverEmitted, Ev("fetch::end", i))
    /\ fetches' = [fetches EXCEPT ![i].pc = "end"]
    /\ UNCHANGED fetchedHrefs
    /\ LoaderOnly

\* fetch::end::<type> settled: resolve(rawContent).
FetchEndResolves(i) ==
    /\ i \in 1..Len(fetches)
    /\ fetches[i].pc = "end"
    /\ fetches' = [fetches EXCEPT ![i].pc = "returned",
                       ![i].promise = IF @ = "pending" THEN "resolved" ELSE @]
    /\ UNCHANGED <<fetchedHrefs, serverEmitted>>
    /\ LoaderOnly

\* Anything awaited inside the try rejected (fetchContent, getContentTypeData
\* or a fetch::end::<type> listener).  The catch first reads error.uri and
\* calls this._connector.request.getRedirects(error.uri): when the rejection
\* value is undefined or null, or getRedirects throws, the catch itself
\* throws (catchThrows), the executor rejects, fetch::error is never emitted
\* and nobody settles the promise.  Otherwise the catch builds a FetchError
\* and awaits emitAsync('fetch::error').
TryRejects(i, catchThrows) ==
    /\ i \in 1..Len(fetches)
    /\ fetches[i].pc \in {"content", "contentType", "end"}
    /\ serverEmitted' = IF catchThrows THEN serverEmitted
                        ELSE Append(serverEmitted, Ev("fetch::error", i))
    /\ fetches' = [fetches EXCEPT ![i].pc = IF catchThrows THEN "abandoned" ELSE "error",
                       ![i].request = IF fetches[i].pc = "content" THEN "failed" ELSE @]
    /\ UNCHANGED fetchedHrefs
    /\ LoaderOnly

\* fetch::error settled: reject(fetchError).
FetchErrorResolves(i) ==
    /\ i \in 1..Len(fetches)
    /\ fetches[i].pc = "error"
    /\ fetches' = [fetches EXCEPT ![i].pc = "returned",
                       ![i].promise = IF @ = "pending" THEN "rejected" ELSE @]
    /\ UNCHANGED <<fetchedHrefs, serverEmitted>>
    /\ LoaderOnly

\* A fetch::error listener threw inside the catch: the executor rejects and
\* nobody settles the promise.
FetchErrorRejects(i) ==
    /\ i \in 1..Len(fetches)
    /\ fetches[i].pc = "error"
    /\ fetches' = [fetches EXCEPT ![i].pc = "abandoned"]
    /\ UNCHANGED <<fetchedHrefs, serverEmitted>>
    /\ LoaderOnly

\* promise.abort(), called by jsdom when it closes: reject(new Error(...));
\* the executor goes on.
Abort(i) ==
    /\ i \in 1..Len(fetches)
    /\ fetches[i].promise = "pending"
    /\ fetches' = [fetches EXCEPT ![i].promise = "rejected"]
    /\ UNCHANGED <<fetchedHrefs, serverEmitted>>
    /\ LoaderOnly

NextLoader ==
    \/ \E url \in Urls : Fetch(url)
    \/ \E i \in 1..MaxFetches : FetchStartResolves(i)
    \/ \E i \in 1..MaxFetches : FetchStartRejects(i)
    \/ \E i \in 1..MaxFetches : ContentResolves(i)
    \/ \E i \in 1..MaxFetches : ContentTypeResolves(i)
    \/ \E i \in 1..MaxFetches : FetchEndResolves(i)
    \/ \E i \in 1..MaxFetches, catchThrows \in BOOLEAN : TryRejects(i, catchThrows)
    \/ \E i \in 1..MaxFetches : FetchErrorResolves(i)
    \/ \E i \in 1..MaxFetches : FetchErrorRejects(i)
    \/ \E i \in 1..MaxFetches : Abort(i)

\* Only the resource loader runs.
StartLoader == InitLoader /\ IdleWeb /\ IdleCLI /\ IdleHttps /\ IdleBus /\ IdleEngine /\ IdleLocal
    /\ IdleExec
    /\ IdleShared
    /\ IdleComp
    /\ IdleCss

SpecLoader == StartLoader /\ [][NextLoader]_vars

(***************************************************************************)
(* Claims about CustomResourceLoader, checked under SpecLoader.            *)
(***************************************************************************)

\* Number of emissions of topic for fetch i.
Emissions(topic, i) ==
    Cardinality({k \in 1..Len(serverEmitted) : serverEmitted[k] = Ev(topic, i)})

\* The executor of fetch i has run to its end: it settled the promise or was
\* abandoned by a rejection outside its try.
Finished(i) == fetches[i].pc \in {"returned", "abandoned"}

\* C8: a resource whose fetch was started (fetch::start emitted) gets exactly
\* one terminal event once the fetch is over: fetch::end::<type> when the
\* request succeeded, fetch::error when it failed; never both, never neither.
C8_ExactlyOneTerminalEvent ==
    \A i \in 1..Len(fetches) :
        /\ Emissions("fetch::end", i) + Emissions("fetch::error", i) <= 1
        /\ (Emissions("fetch::end", i) = 1 => fetches[i].request = "succeeded")
        /\ (Emissions("fetch::error", i) = 1 => fetches[i].request = "failed")
        /\ (Finished(i) /\ Emissions("fetch::start", i) = 1)
              => Emissions("fetch::end", i) + Emissions("fetch::error", i) = 1

\* fetchContent was called for fetch i.
Requested(i) ==
    \/ fetches[i].pc \in {"content", "contentType", "end", "error"}
    \/ fetches[i].request # "none"

\* C28: for each resolved url at most one fetch emits fetch::start (once)
\* and calls fetchContent; every later fetch of that url returns null, emits
\* nothing and requests nothing, whatever became of the first.
C28_FetchedOnce ==
    \A i, j \in 1..Len(fetches) :
        /\ Emissions("fetch::start", i) <= 1
        /\ (i < j /\ fetches[i].url = fetches[j].url /\ fetches[i].url # "") =>
               /\ fetches[j].pc = "null"
               /\ fetches[j].promise = "none"
               /\ ~Requested(j)
               /\ \A k \in 1..Len(serverEmitted) : serverEmitted[k].id # j

C28_Witness ==
    \E i, j \in 1..Len(fetches) :
        /\ i < j
        /\ fetches[i].url = fetches[j].url
        /\ fetches[i].url # ""
        /\ fetches[i].promise = "rejected"
        /\ fetches[i].request = "failed"
        /\ fetches[j].pc = "null"

(***************************************************************************)
(* HttpsOnlyHint (packages/hint-https-only/src/hint.ts)                    *)
(***************************************************************************)

HttpsOnly == UNCHANGED <<webVars, cliVars, loaderVars, busVars, engineVars, localVars,
                 execVars, sharedVars, compVars, cssVars>>

\* The urls of the model.
AllUrls == {Url(sc, p) : sc \in {"http", "https", "data"}, p \in {"/", "/img"}}
\* The urls a page is served from.
PageUrls == {Url(sc, "/") : sc \in {"http", "https"}}
\* What a src, poster or data attribute or a srcset entry holds: an absolute
\* url, or a path relative to the page.
AttrValues == AllUrls \cup {[rel |-> p] : p \in {"/", "/img"}}

\* isHTTPS / isDataURI of @hint/utils-network
isHTTPS(u) == u.scheme = "https"
isDataURI(u) == u.scheme = "data"

\* URL.resolve(resource, url): an absolute url stands, a path is taken on the
\* resource's scheme and host.
Resolve(resource, v) ==
    IF "rel" \in DOMAIN v THEN Url(resource.scheme, v.rel) ELSE v

Report(u, message) == [resource |-> u, message |-> message]

\* The elements of sequence q as a set.
Range(q) == {q[k] : k \in 1..Len(q)}

\* reportInsecureHops: response.url is appended to non-empty hops that lack it.
HopsOf(response) ==
    IF Len(response.hops) > 0 /\ response.url \notin Range(response.hops)
    THEN Append(response.hops, response.url)
    ELSE response.hops

FailsHop(u) == ~isHTTPS(u)
FailsSrc(u) == ~isHTTPS(u) /\ ~isDataURI(u)
\* The test of a loop: the one of reportInsecureHops ("hop") or the one
\* applied to a resource or an element's url ("src").
FailsTest(test, u) == IF test = "hop" THEN FailsHop(u) ELSE FailsSrc(u)

\* hops.forEach / urls.forEach: report, in order, every url of q that fails
\* the test and is not in the reported set, adding it to the set.
\* Returns <<reported set, reports>> after the loop.
RECURSIVE ReportEach(_, _, _, _, _)
ReportEach(q, test, message, seen, out) ==
    IF q = <<>> THEN <<seen, out>>
    ELSE IF Head(q) \notin seen /\ FailsTest(test, Head(q))
         THEN ReportEach(Tail(q), test, message, seen \cup {Head(q)},
                         Append(out, Report(Head(q), message)))
         ELSE ReportEach(Tail(q), test, message, seen, out)

\* validateTarget: a target that is not HTTPS is reported (the url is not
\* added to reportedUrls); otherwise targetIsServedOverHTTPS is set.
validateTarget(resource) ==
    IF ~isHTTPS(resource)
    THEN /\ hintReports' = Append(hintReports, Report(resource, "siteShouldBeHTTPS"))
         /\ UNCHANGED targetIsServedOverHTTPS
    ELSE /\ targetIsServedOverHTTPS' = TRUE
         /\ UNCHANGED hintReports

\* validateFetchEnd, the listener of fetch::end::*.
validateFetchEnd(resource, hops) ==
    /\ delivered < MaxEvents
    /\ delivered' = delivered + 1
    /\ IF target = NoUrl
       THEN /\ target' = resource
            /\ validateTarget(resource)
            /\ UNCHANGED reportedUrls
       ELSE IF ~targetIsServedOverHTTPS
       THEN UNCHANGED <<target, targetIsServedOverHTTPS, reportedUrls, hintReports>>
       ELSE LET afterHops == ReportEach(HopsOf([hops |-> hops, url |-> resource]),
                                        "hop", "shouldNotBeRedirected",
                                        reportedUrls, hintReports)
                afterAll == ReportEach(<<resource>>, "src", "shouldBeHTTPS",
                                       afterHops[1], afterHops[2])
            IN /\ reportedUrls' = afterAll[1]
               /\ hintReports' = afterAll[2]
               /\ UNCHANGED <<target, targetIsServedOverHTTPS>>
    /\ HttpsOnly

\* validateFetchError, the listener of fetch::error.
validateFetchError(resource, invalidProtocol, hasHops) ==
    /\ delivered < MaxEvents
    /\ delivered' = delivered + 1
    /\ IF resource \notin reportedUrls /\ ~isDataURI(resource) /\ invalidProtocol
       THEN /\ reportedUrls' = reportedUrls \cup {resource}
            /\ hintReports' = Append(hintReports,
                 Report(resource, IF hasHops THEN "shouldNotBeRedirected" ELSE "shouldBeHTTPS"))
       ELSE UNCHANGED <<reportedUrls, hintReports>>
    /\ UNCHANGED <<target, targetIsServedOverHTTPS>>
    /\ HttpsOnly

\* validateElementSrcs, the listener of element::img, audio, video, source,
\* track and object: values are the src, poster, data and srcset urls found.
validateElementSrcs(resource, values) ==
    /\ delivered < MaxEvents
    /\ delivered' = delivered + 1
    /\ LET urls == [k \in 1..Len(values) |-> Resolve(resource, values[k])]
           after == ReportEach(urls, "src", "shouldBeHTTPS", reportedUrls, hintReports)
       IN /\ reportedUrls' = after[1]
          /\ hintReports' = after[2]
    /\ UNCHANGED <<target, targetIsServedOverHTTPS>>
    /\ HttpsOnly

NextHttps ==
    \/ \E resource \in AllUrls, hops \in SeqUpTo(AllUrls, 1) :
           validateFetchEnd(resource, hops)
    \/ \E resource \in AllUrls, invalidProtocol \in BOOLEAN, hasHops \in BOOLEAN :
           validateFetchError(resource, invalidProtocol, hasHops)
    \/ \E resource \in PageUrls, values \in SeqUpTo(AttrValues, MaxAttrs) :
           validateElementSrcs(resource, values)

\* Only the https-only hint runs.
StartHttps == InitHttps /\ IdleWeb /\ IdleCLI /\ IdleLoader /\ IdleBus /\ IdleEngine /\ IdleLocal
    /\ IdleExec
    /\ IdleShared
    /\ IdleComp
    /\ IdleCss

SpecHttps == StartHttps /\ [][NextHttps]_vars

(***************************************************************************)
(* Claims about HttpsOnlyHint, checked under SpecHttps.                    *)
(***************************************************************************)

\* C9: over any sequence of events delivered to one hint instance each
\* distinct url, the target's included, is reported at most once.
C9_EachUrlReportedOnce ==
    \A k1, k2 \in 1..Len(hintReports) :
        hintReports[k1].resource = hintReports[k2].resource => k1 = k2

\* The reports a step adds.
NewReports == SubSeq(hintReports', Len(hintReports) + 1, Len(hintReports'))

\* C27: a fetch::end::* event delivered first makes its resource the target
\* and reports it once when it is not HTTPS, and not at all when it is;
\* after a target that is not HTTPS a fetch::end::* event reports nothing;
\* after an HTTPS target it reports only its resource and hops, and only
\* those that are neither HTTPS nor data URIs.
C27_TargetDecides ==
    [][\A resource \in AllUrls, hops \in SeqUpTo(AllUrls, 1) :
           validateFetchEnd(resource, hops) =>
               /\ target = NoUrl =>
                      /\ target' = resource
                      /\ NewReports = IF isHTTPS(resource) THEN <<>>
                                      ELSE <<Report(resource, "siteShouldBeHTTPS")>>
               /\ (target # NoUrl /\ ~targetIsServedOverHTTPS) => NewReports = <<>>
               /\ (target # NoUrl /\ targetIsServedOverHTTPS) =>
                      \A k \in 1..Len(NewReports) :
                          /\ NewReports[k].resource \in {resource} \cup Range(hops)
                          /\ ~isHTTPS(NewReports[k].resource)
                          /\ ~isDataURI(NewReports[k].resource)]_vars

(***************************************************************************)
(* Engine event bus (on / emitAsync), with the JavaScript parser and the   *)
(* JSX parser (packages/parser-jsx) registered on it.                      *)
(***************************************************************************)

BusOnly == UNCHANGED <<webVars, cliVars, loaderVars, httpsVars, engineVars, localVars,
                 execVars, sharedVars, compVars, cssVars>>

\* A topic or a pattern is the sequence of its '::'-separated segments.
FetchEndAny == <<"fetch", "end", "*">>
ElementAny == <<"element", "*">>
ElementScript == <<"element", "script">>
ParseStartJavascript == <<"parse", "start", "javascript">>
ParseEndJavascript == <<"parse", "end", "javascript">>
ParseStartHtml == <<"parse", "start", "html">>
ParseEndHtml == <<"parse", "end", "html">>

\* The patterns test listeners and hints subscribe to.
ProbePatterns ==
    {FetchEndAny, ElementAny, <<"fetch", "end", "html">>, <<"fetch", "end">>,
     ParseStartHtml, ParseEndHtml}

\* The JSX elements of a source, as one nesting chain from the outermost
\* element inwards: TRUE for a native element (<div>), FALSE for a custom
\* component (<Foo>).
NoJsx == <<>>
Div == <<TRUE>>
Foo == <<FALSE>>
DivInFoo == <<FALSE, TRUE>>

\* The event payloads: the response's media type (for an element: its type
\* attribute), the JSX elements of the content, and whether a script
\* element has a src attribute.
Payload(mediaType, jsx) == [mediaType |-> mediaType, jsx |-> jsx, src |-> FALSE]
ScriptElement(src, type) == [mediaType |-> type, jsx |-> NoJsx, src |-> src]

\* The emitAsync calls a connector or a test makes.
Emitted ==
    {<<<<"fetch", "end", "unknown">>, Payload("text/jsx", Div)>>,
     <<<<"fetch", "end", "unknown">>, Payload("text/jsx", DivInFoo)>>,
     <<<<"fetch", "end", "unknown">>, Payload("text/jsx", Foo)>>,
     <<<<"fetch", "end", "script">>, Payload("text/javascript", NoJsx)>>,
     <<<<"fetch", "end", "html">>, Payload("text/html", NoJsx)>>,
     <<<<"FETCH", "end", "html">>, Payload("text/html", NoJsx)>>,
     <<<<"fetch", "end", "html", "x">>, Payload("text/html", NoJsx)>>,
     <<<<"fetch", "end">>, Payload("text/html", NoJsx)>>,
     <<<<"fetch", "error">>, Payload("text/html", NoJsx)>>,
     <<ElementScript, ScriptElement(FALSE, "text/javascript")>>,
     <<ElementScript, ScriptElement(TRUE, "text/javascript")>>,
     <<ElementScript, ScriptElement(FALSE, "text/x-handlebars-template")>>}

IsExact(P) == "*" \notin Range(P)

\* A matcher that lets every pattern, with or without wildcards, match the
\* deeper topics too.
RECURSIVE MatchesPrefix(_, _)
MatchesPrefix(P, T) ==
    IF P = <<>> THEN TRUE
    ELSE IF T = <<>> THEN FALSE
    ELSE /\ (Head(P) = "*" \/ Head(P) = Head(T))
         /\ MatchesPrefix(Tail(P), Tail(T))

\* The walk of the matching algorithm over the segments left of a pattern
\* and of a topic: a pattern segment '*' matches any one segment, any other
\* segment only itself.  When the pattern ends before the topic, the rest
\* of the topic is let through for a bare prefix (deeper) only.
RECURSIVE Walks(_, _, _)
Walks(P, T, deeper) ==
    IF P = <<>> THEN T = <<>> \/ deeper
    ELSE IF T = <<>> THEN FALSE
    ELSE /\ (Head(P) = "*" \/ Head(P) = Head(T))
         /\ Walks(Tail(P), Tail(T), deeper)

\* The matching algorithm: the segment counts must be equal, except for a
\* pattern without wildcard segments, a bare prefix, which matches every
\* topic that starts with its segments.
Matches(P, T) == Walks(P, T, P # <<>> /\ IsExact(P))

\* The listeners emitAsync(T) runs: the matches of the patterns without
\* wildcard in registration order, then the wildcard matches in
\* registration order.
DispatchOrder(T) ==
    LET all == [i \in 1..Len(registry) |-> i]
        ExactMatch(i) == IsExact(registry[i].pattern) /\ Matches(registry[i].pattern, T)
        WildMatch(i) == ~IsExact(registry[i].pattern) /\ Matches(registry[i].pattern, T)
    IN SelectSeq(all, ExactMatch) \o SelectSeq(all, WildMatch)

\* The record of one emitAsync call made by listener run `parent` (or by
\* nobody: NoRun).
Run(d, k) == [d |-> d, k |-> k]
NoRun == Run(0, 0)
Dispatch(T, payload, parent) ==
    LET order == DispatchOrder(T)
    IN [topic |-> T, payload |-> payload, order |-> order,
        st |-> [k \in 1..Len(order) |-> "pending"],
        child |-> [k \in 1..Len(order) |-> 0],
        parent |-> parent, callbacks |-> 0]

Settled == {"resolved", "rejected"}
EmitSettled(d) == \A k \in 1..Len(dispatches[d].order) : dispatches[d].st[k] \in Settled
EmitRejected(d) ==
    EmitSettled(d) /\ \E k \in 1..Len(dispatches[d].order) : dispatches[d].st[k] = "rejected"
\* The promise of emitAsync resolves once every listener has settled and
\* none rejected.
EmitResolved(d) == EmitSettled(d) /\ ~EmitRejected(d)

\* Awaited dispatch: listener k of a dispatch may start once those before
\* it have settled.
CanStart(d, k) == \A j \in 1..(k - 1) : dispatches[d].st[j] \in Settled

Logged(op, d, k) == [op |-> op, d |-> d, l |-> dispatches[d].order[k]]
Rejections == Cardinality({e \in 1..Len(busLog) : busLog[e].op = "rejected"})

KindOf(d, k) == registry[dispatches[d].order[k]].kind
Pending(d, k) ==
    /\ d \in 1..Len(dispatches)
    /\ k \in 1..Len(dispatches[d].order)
    /\ dispatches[d].st[k] = "pending"
    /\ CanStart(d, k)
Awaiting(d, k, what) ==
    /\ d \in 1..Len(dispatches)
    /\ k \in 1..Len(dispatches[d].order)
    /\ dispatches[d].st[k] = what

\* Listener run (d, k) goes to state st.
Goes(ds, d, k, st) == [ds EXCEPT ![d].st[k] = st]
\* Listener run (d, k) calls emitAsync(T, payload) and awaits it in state st.
Emits(d, k, T, payload, st) ==
    Append([dispatches EXCEPT ![d].st[k] = st, ![d].child[k] = Len(dispatches) + 1],
           Dispatch(T, payload, Run(d, k)))

\* on(pattern, listener), called by the constructors of parsers and hints
\* and by tests before anything is emitted.  One parser of each kind; the
\* parsers are constructed before the hints and the tests' listeners.
Register(kind, pattern) ==
    /\ emits = 0
    /\ Len(registry) < MaxListeners
    /\ kind # "probe" => \A i \in 1..Len(registry) : registry[i].kind \notin {kind, "probe"}
    /\ registry' = Append(registry, [kind |-> kind, pattern |-> pattern])
    /\ UNCHANGED <<dispatches, busLog, emits>>
    /\ BusOnly

\* emitAsync(T, payload) called and awaited from outside any listener.
EmitAsync(T, payload) ==
    /\ emits < MaxEmits
    /\ \A d \in 1..Len(dispatches) : EmitSettled(d)
    /\ emits' = emits + 1
    /\ dispatches' = Append(dispatches, Dispatch(T, payload, NoRun))
    /\ UNCHANGED <<registry, busLog>>
    /\ BusOnly

\* An asynchronous listener of a test or hint is called and suspends.
StartProbe(d, k) ==
    /\ Pending(d, k)
    /\ KindOf(d, k) = "probe"
    /\ dispatches' = Goes(dispatches, d, k, "running")
    /\ busLog' = Append(busLog, Logged("start", d, k))
    /\ UNCHANGED <<registry, emits>>
    /\ BusOnly

ProbeResolves(d, k) ==
    /\ Awaiting(d, k, "running")
    /\ dispatches' = Goes(dispatches, d, k, "resolved")
    /\ busLog' = Append(busLog, Logged("resolved", d, k))
    /\ UNCHANGED <<registry, emits>>
    /\ BusOnly

ProbeRejects(d, k) ==
    /\ Awaiting(d, k, "running")
    /\ Rejections < MaxThrows
    /\ dispatches' = Goes(dispatches, d, k, "rejected")
    /\ busLog' = Append(busLog, Logged("rejected", d, k))
    /\ UNCHANGED <<registry, emits>>
    /\ BusOnly

\* JavaScriptParser's listener of fetch::end::*: a response that is not
\* JavaScript or JSX is left alone, otherwise parse::start::javascript is
\* emitted and awaited.
isJavaScript(payload) == payload.mediaType \in {"text/javascript", "text/jsx"}

StartJsParser(d, k) ==
    /\ Pending(d, k)
    /\ KindOf(d, k) = "jsParser"
    /\ IF isJavaScript(dispatches[d].payload)
       THEN /\ dispatches' = Emits(d, k, ParseStartJavascript, dispatches[d].payload,
                                   "await parse::start::javascript")
            /\ busLog' = Append(busLog, Logged("start", d, k))
       ELSE /\ dispatches' = Goes(dispatches, d, k, "resolved")
            /\ busLog' = busLog \o <<Logged("start", d, k), Logged("resolved", d, k)>>
    /\ UNCHANGED <<registry, emits>>
    /\ BusOnly

\* JavaScriptParser's listener of element::script: an element with a src
\* attribute or a type that is not JavaScript is left alone; the inline
\* code of any other is parsed like a fetched script.
isScriptType(payload) == payload.mediaType = "text/javascript"

StartJsTagParser(d, k) ==
    /\ Pending(d, k)
    /\ KindOf(d, k) = "jsTagParser"
    /\ IF ~dispatches[d].payload.src /\ isScriptType(dispatches[d].payload)
       THEN /\ dispatches' = Emits(d, k, ParseStartJavascript, dispatches[d].payload,
                                   "await parse::start::javascript")
            /\ busLog' = Append(busLog, Logged("start", d, k))
       ELSE /\ dispatches' = Goes(dispatches, d, k, "resolved")
            /\ busLog' = busLog \o <<Logged("start", d, k), Logged("resolved", d, k)>>
    /\ UNCHANGED <<registry, emits>>
    /\ BusOnly

\* The listener run (d, k) fails because the emitAsync it awaited rejected.
AwaitRejects(d, k) ==
    /\ dispatches' = Goes(dispatches, d, k, "rejected")
    /\ busLog' = Append(busLog, Logged("rejected", d, k))

\* A parser that stops after parse::start::javascript.
JsParseStartOnly(d, k) ==
    /\ Awaiting(d, k, "await parse::start::javascript")
    /\ EmitSettled(dispatches[d].child[k])
    /\ IF EmitRejected(dispatches[d].child[k])
       THEN AwaitRejects(d, k)
       ELSE /\ dispatches' = Goes(dispatches, d, k, "resolved")
            /\ busLog' = Append(busLog, Logged("resolved", d, k))
    /\ UNCHANGED <<registry, emits>>
    /\ BusOnly

\* JavaScriptParser: parse::start::javascript has settled; the code is
\* parsed and parse::end::javascript is emitted with the walk, and awaited.
JsParseStartSettles(d, k) ==
    /\ Awaiting(d, k, "await parse::start::javascript")
    /\ EmitSettled(dispatches[d].child[k])
    /\ IF EmitRejected(dispatches[d].child[k])
       THEN AwaitRejects(d, k)
       ELSE /\ dispatches' = Emits(d, k, ParseEndJavascript, dispatches[d].payload,
                                   "await parse::end::javascript")
            /\ UNCHANGED busLog
    /\ UNCHANGED <<registry, emits>>
    /\ BusOnly

\* JSXParser's listener of parse::end::javascript (synchronous): it walks
\* the AST for root JSX elements and registers its walk.onComplete callback.
StartJsxParser(d, k) ==
    /\ Pending(d, k)
    /\ KindOf(d, k) = "jsxParser"
    /\ dispatches' = [Goes(dispatches, d, k, "resolved") EXCEPT ![d].callbacks = @ + 1]
    /\ busLog' = busLog \o <<Logged("start", d, k), Logged("resolved", d, k)>>
    /\ UNCHANGED <<registry, emits>>
    /\ BusOnly

\* The walk of JSXParser's listener: a JSX element is a root when it is
\* native and has no native element among its ancestors.
isNativeElement(ast, i) == ast[i]
getParentElement(ast, i) == {j \in 1..(i - 1) : isNativeElement(ast, j)}
Roots(ast) ==
    {i \in 1..Len(ast) : isNativeElement(ast, i) /\ getParentElement(ast, i) = {}}

\* A callback that goes on whatever the walk found.
RootsIgnored(payload) == TRUE

\* `if (!roots.size) return;` of the onComplete callback.
RootsFound(payload) == Roots(payload.jsx) # {}

\* JavaScriptParser: parse::end::javascript has settled; the walk is done
\* and its onComplete callbacks are awaited.  JSXParser's callback returns
\* at once when no root was found, else emits parse::start::html.
JsParseEndSettles(d, k) ==
    /\ Awaiting(d, k, "await parse::end::javascript")
    /\ EmitSettled(dispatches[d].child[k])
    /\ IF EmitRejected(dispatches[d].child[k])
       THEN AwaitRejects(d, k)
       ELSE IF dispatches[dispatches[d].child[k]].callbacks > 0
               /\ RootsFound(dispatches[d].payload)
       THEN /\ dispatches' = Emits(d, k, ParseStartHtml, dispatches[d].payload,
                                   "await parse::start::html")
            /\ UNCHANGED busLog
       ELSE /\ dispatches' = Goes(dispatches, d, k, "resolved")
            /\ busLog' = Append(busLog, Logged("resolved", d, k))
    /\ UNCHANGED <<registry, emits>>
    /\ BusOnly

\* JSXParser's callback: parse::start::html has settled; the HTML fragment
\* is created and parse::end::html is emitted.
JsxStartHtmlSettles(d, k) ==
    /\ Awaiting(d, k, "await parse::start::html")
    /\ EmitSettled(dispatches[d].child[k])
    /\ IF EmitRejected(dispatches[d].child[k])
       THEN AwaitRejects(d, k)
       ELSE /\ dispatches' = Emits(d, k, ParseEndHtml, dispatches[d].payload,
                                   "await parse::end::html")
            /\ UNCHANGED busLog
    /\ UNCHANGED <<registry, emits>>
    /\ BusOnly

\* The callback calling emitAsync('parse::end::html', ...) without await.
NoAwaitParseEndHtml(n) == TRUE

\* The callback's `await this.engine.emitAsync('parse::end::html', ...)`:
\* it goes on once that emitAsync has settled.
AwaitParseEndHtml(n) == EmitSettled(n)

\* JSXParser's callback ends, and with it JavaScriptParser's listener.
JsxCallbackCompletes(d, k) ==
    /\ Awaiting(d, k, "await parse::end::html")
    /\ AwaitParseEndHtml(dispatches[d].child[k])
    /\ IF EmitRejected(dispatches[d].child[k])
       THEN AwaitRejects(d, k)
       ELSE /\ dispatches' = Goes(dispatches, d, k, "resolved")
            /\ busLog' = Append(busLog, Logged("resolved", d, k))
    /\ UNCHANGED <<registry, emits>>
    /\ BusOnly

NextBus ==
    \/ \E pattern \in ProbePatterns : Register("probe", pattern)
    \/ Register("jsParser", FetchEndAny)
    \/ Register("jsTagParser", ElementScript)
    \/ Register("jsxParser", ParseEndJavascript)
    \/ \E e \in Emitted : EmitAsync(e[1], e[2])
    \/ \E d \in 1..Len(dispatches), k \in 1..MaxListeners : StartProbe(d, k)
    \/ \E d \in 1..Len(dispatches), k \in 1..MaxListeners : ProbeResolves(d, k)
    \/ \E d \in 1..Len(dispatches), k \in 1..MaxListeners : ProbeRejects(d, k)
    \/ \E d \in 1..Len(dispatches), k \in 1..MaxListeners : StartJsParser(d, k)
    \/ \E d \in 1..Len(dispatches), k \in 1..MaxListeners : StartJsTagParser(d, k)
    \/ \E d \in 1..Len(dispatches), k \in 1..MaxListeners : JsParseStartSettles(d, k)
    \/ \E d \in 1..Len(dispatches), k \in 1..MaxListeners : StartJsxParser(d, k)
    \/ \E d \in 1..Len(dispatches), k \in 1..MaxListeners : JsParseEndSettles(d, k)
    \/ \E d \in 1..Len(dispatches), k \in 1..MaxListeners : JsxStartHtmlSettles(d, k)
    \/ \E d \in 1..Len(dispatches), k \in 1..MaxListeners : JsxCallbackCompletes(d, k)

\* Only the engine's bus and the parsers run.
StartBus == InitBus /\ IdleWeb /\ IdleCLI /\ IdleLoader /\ IdleHttps /\ IdleEngine /\ IdleLocal
    /\ IdleExec
    /\ IdleShared
    /\ IdleComp
    /\ IdleCss

SpecBus == StartBus /\ [][NextBus]_vars

(***************************************************************************)
(* Claims about the event bus, checked under SpecBus.                      *)
(***************************************************************************)

\* Dispatch n is d or was emitted, directly or not, by a listener of d.
RECURSIVE Within(_, _)
Within(n, d) ==
    \/ n = d
    \/ /\ dispatches[n].parent # NoRun
       /\ Within(dispatches[n].parent.d, d)

\* Listener l has been called for dispatch n / has settled for it.
Started(n, l) == \E e \in 1..Len(busLog) : busLog[e] = [op |-> "start", d |-> n, l |-> l]
HasSettled(n, l) ==
    \E e \in 1..Len(busLog) : busLog[e].d = n /\ busLog[e].l = l /\ busLog[e].op \in Settled

\* Topic T was emitted within dispatch d and all its listeners have run.
DeliveredWithin(T, d) ==
    \E n \in 1..Len(dispatches) :
        /\ Within(n, d)
        /\ dispatches[n].topic = T
        /\ \A l \in Range(dispatches[n].order) : Started(n, l) /\ HasSettled(n, l)

HasParser(kind) == \E i \in 1..Len(registry) : registry[i].kind = kind

\* C5: when the promise of an emitAsync call has resolved, every listener
\* of the event and of every event emitted in consequence has settled; for
\* a JSX resource with both parsers registered, parse::end::javascript,
\* parse::start::html and parse::end::html have been delivered by then.
C5_ResolvedAfterNestedWork ==
    \A d \in 1..Len(dispatches) :
        EmitResolved(d) =>
            /\ \A n \in 1..Len(dispatches) :
                   Within(n, d) =>
                       \A k \in 1..Len(dispatches[n].order) :
                           /\ dispatches[n].st[k] \in Settled
                           /\ HasSettled(n, dispatches[n].order[k])
            /\ ( /\ dispatches[d].topic = <<"fetch", "end", "unknown">>
                 /\ dispatches[d].payload = Payload("text/jsx", Div)
                 /\ HasParser("jsParser")
                 /\ HasParser("jsxParser") )
               => /\ DeliveredWithin(ParseEndJavascript, d)
                  /\ DeliveredWithin(ParseStartHtml, d)
                  /\ DeliveredWithin(ParseEndHtml, d)

\* An emitAsync('fetch::end::unknown') for a JSX resource has resolved after
\* a test's listener of parse::end::html ran.
C5_Witness ==
    \E d, n \in 1..Len(dispatches) :
        /\ dispatches[d].parent = NoRun
        /\ dispatches[d].topic = <<"fetch", "end", "unknown">>
        /\ EmitResolved(d)
        /\ n # d
        /\ Within(n, d)
        /\ dispatches[n].topic = ParseEndHtml
        /\ \E l \in Range(dispatches[n].order) :
               registry[l].kind = "probe" /\ HasSettled(n, l)

\* C6: for one emitted event the matching listeners run one at a time in
\* registration order: when a listener is started, every matching listener
\* registered before it has settled.
C6_OneAtATimeInRegistrationOrder ==
    \A e \in 1..Len(busLog) :
        busLog[e].op = "start" =>
            \A l \in Range(dispatches[busLog[e].d].order) :
                l < busLog[e].l =>
                    \E e2 \in 1..(e - 1) :
                        /\ busLog[e2].d = busLog[e].d
                        /\ busLog[e2].l = l
                        /\ busLog[e2].op \in Settled

\* The segment counts of pattern P and topic T are compatible: equal, or P
\* is a bare prefix (no wildcard segment) with fewer segments than T.
CountsCompatible(P, T) ==
    \/ Len(P) = Len(T)
    \/ (Len(P) < Len(T) /\ \A k \in 1..Len(P) : P[k] # "*")

\* Every segment of P that is not '*' equals the segment of T at its place.
SegmentsAgree(P, T) ==
    \A k \in 1..Len(P) : P[k] # "*" => (k <= Len(T) /\ P[k] = T[k])

\* C7: a listener receives an emitted topic if and only if every
\* non-wildcard segment of its pattern equals the topic's segment at that
\* place and the segment counts are compatible; upper and lower case differ;
\* 'fetch::end::*' receives exactly the three-segment topics
\* fetch::end::<type>, so not fetch::end, fetch::error or a four-segment
\* topic, and 'element::*' exactly the topics element::<tag>.  Every listener
\* that should receive the event has been called once emitAsync settled,
\* and no other listener is ever called.
C7_MatchIffSegmentsAgree ==
    \A d \in 1..Len(dispatches) :
        LET T == dispatches[d].topic
            Receives(l) == \E k \in 1..Len(dispatches[d].order) : dispatches[d].order[k] = l
            Should(l) == SegmentsAgree(registry[l].pattern, T)
                         /\ CountsCompatible(registry[l].pattern, T)
        IN \A l \in 1..Len(registry) :
               /\ Receives(l) <=> Should(l)
               /\ Started(d, l) => Should(l)
               /\ (EmitSettled(d) /\ Should(l)) => Started(d, l)
               /\ registry[l].pattern = <<"fetch", "end", "*">> =>
                      (Receives(l) <=> T \in {<<"fetch", "end", "html">>,
                                              <<"fetch", "end", "script">>,
                                              <<"fetch", "end", "unknown">>})
               /\ registry[l].pattern = <<"element", "*">> =>
                      (Receives(l) <=> T = <<"element", "script">>)
               /\ (registry[l].pattern = <<"fetch", "end", "*">>
                       /\ T \in {<<"fetch", "end">>, <<"fetch", "error">>,
                                  <<"fetch", "end", "html", "x">>,
                                  <<"FETCH", "end", "html">>}) => ~Started(d, l)

\* fetch::end::html was emitted and emitAsync settled with listeners of
\* 'fetch::end::*', of the bare prefix 'fetch::end' and of 'element::*'
\* registered: the first two were called, the third not.
C7_Witness ==
    \E d \in 1..Len(dispatches), l1, l2, l3 \in 1..Len(registry) :
        /\ dispatches[d].topic = <<"fetch", "end", "html">>
        /\ EmitSettled(d)
        /\ registry[l1].pattern = <<"fetch", "end", "*">>
        /\ Started(d, l1)
        /\ registry[l2].pattern = <<"fetch", "end">>
        /\ Started(d, l2)
        /\ registry[l3].pattern = <<"element", "*">>
        /\ ~Started(d, l3)

\* The emitAsync calls of topic T made by listener run (d, k).
Children(d, k, T) ==
    {n \in 1..Len(dispatches) :
         dispatches[n].parent = Run(d, k) /\ dispatches[n].topic = T}

JsKinds == {"jsParser", "jsTagParser"}

\* An inline script element with a JavaScript type, or a fetch::end::script
\* response.
ScriptToParse(d) ==
    \/ /\ dispatches[d].topic = ElementScript
       /\ ~dispatches[d].payload.src
       /\ dispatches[d].payload.mediaType = "text/javascript"
    \/ dispatches[d].topic = <<"fetch", "end", "script">>

\* A script element with a src attribute or a type that is not JavaScript.
ScriptToSkip(d) ==
    /\ dispatches[d].topic = ElementScript
    /\ (dispatches[d].payload.src \/ dispatches[d].payload.mediaType # "text/javascript")

\* C19: a run of a JavaScript parser listener emits parse::start::javascript
\* and parse::end::javascript at most once each, the second only after the
\* first has resolved, both with the payload's resource; for an inline
\* JavaScript element or a fetch::end::script response both have been
\* emitted and have resolved when the run, and so the triggering emitAsync,
\* resolves; for a script element with src or of another type neither is
\* emitted.
C19_ParseEventsOncePerScript ==
    \A d \in 1..Len(dispatches) :
        \A k \in 1..Len(dispatches[d].order) :
            KindOf(d, k) \in JsKinds =>
                LET starts == Children(d, k, ParseStartJavascript)
                    ends == Children(d, k, ParseEndJavascript)
                IN /\ Cardinality(starts) <= 1
                   /\ Cardinality(ends) <= 1
                   /\ \A e \in ends : \E b \in starts : b < e /\ EmitResolved(b)
                   /\ \A n \in starts \cup ends :
                          dispatches[n].payload = dispatches[d].payload
                   /\ ScriptToSkip(d) => (starts = {} /\ ends = {})
                   /\ (ScriptToParse(d) /\ dispatches[d].st[k] # "pending") => starts # {}
                   /\ (ScriptToParse(d) /\ dispatches[d].st[k] = "resolved") =>
                          /\ starts # {}
                          /\ ends # {}
                          /\ \A e \in ends : EmitResolved(e)
                   /\ (ScriptToParse(d) /\ EmitResolved(d)) =>
                          \E b \in starts, e \in ends : b < e /\ EmitResolved(e)

\* An emitAsync('element::script') for an inline JavaScript element has
\* resolved with the parser registered, after parse::end::javascript was
\* emitted.
C19_Witness ==
    \E d \in 1..Len(dispatches) :
        /\ dispatches[d].topic = ElementScript
        /\ EmitResolved(d)
        /\ \E k \in 1..Len(dispatches[d].order) :
               /\ KindOf(d, k) = "jsTagParser"
               /\ Children(d, k, ParseEndJavascript) # {}

\* The source has a native JSX element.
HasNativeElement(payload) == \E i \in 1..Len(payload.jsx) : payload.jsx[i]

\* C20: for a parse::end::javascript event, parse::start::html and then
\* parse::end::html are emitted for its resource, once each and the second
\* after the first has resolved, if and only if the JSX parser received the
\* event and the source has a native JSX element; without one neither is
\* emitted.
C20_HtmlEventsIffRoots ==
    \A n \in 1..Len(dispatches) :
        dispatches[n].topic = ParseEndJavascript =>
            LET r == dispatches[n].parent
                starts == Children(r.d, r.k, ParseStartHtml)
                ends == Children(r.d, r.k, ParseEndHtml)
                received == \E k \in 1..Len(dispatches[n].order) : KindOf(n, k) = "jsxParser"
                found == HasNativeElement(dispatches[n].payload)
            IN /\ Cardinality(starts) <= 1
               /\ Cardinality(ends) <= 1
               /\ \A e \in ends : \E b \in starts : b < e /\ EmitResolved(b)
               /\ \A m \in starts \cup ends :
                      /\ n < m
                      /\ EmitResolved(n)
                      /\ dispatches[m].payload = dispatches[n].payload
               /\ starts # {} => (received /\ found)
               /\ ~found => (starts = {} /\ ends = {})
               /\ dispatches[r.d].st[r.k] = "resolved" =>
                      ((received /\ found) <=> (starts # {} /\ ends # {}))

\* A JSX source whose native element sits inside a custom component was
\* parsed and both HTML events were emitted.
C20_Witness ==
    \E n \in 1..Len(dispatches) :
        /\ dispatches[n].topic = ParseEndJavascript
        /\ dispatches[n].payload.jsx = DivInFoo
        /\ dispatches[dispatches[n].parent.d].st[dispatches[n].parent.k] = "resolved"
        /\ Children(dispatches[n].parent.d, dispatches[n].parent.k, ParseEndHtml) # {}

(***************************************************************************)
(* Engine scan cycle: analyze(target) bounded by hintsTimeout, with the    *)
(* connector's close() in the cleanup block.                               *)
(***************************************************************************)

EngineOnly == UNCHANGED <<webVars, cliVars, loaderVars, httpsVars, busVars, localVars,
                 execVars, sharedVars, compVars, cssVars>>

TerminalPhases == {"Completed", "Failed"}
AnalyzeSettled == analyzePromise \notin {"none", "pending"}

\* analyze(target): Idle -> Scanning; scan::start is emitted, the
\* connector's collect(target) is called and the hintsTimeout timer started.
EngineAnalyze ==
    /\ enginePhase = "Idle"
    /\ analyzePromise = "none"
    /\ Len(outcomes) < MaxScans
    /\ enginePhase' = "Scanning"
    /\ connectorCollect' = "pending"
    /\ hintsTimer' = "armed"
    /\ analyzePromise' = "pending"
    /\ engineLog' = <<"scan::start">>
    /\ UNCHANGED <<closeCalls, outcomes>>
    /\ EngineOnly

\* The connector emits a fetch or element event through the bus and its
\* listeners settle.
ConnectorEmits ==
    /\ enginePhase = "Scanning"
    /\ connectorCollect = "pending"
    /\ Len(engineLog) <= MaxScanEvents
    /\ engineLog' = Append(engineLog, "fetch::end")
    /\ UNCHANGED <<enginePhase, connectorCollect, hintsTimer, analyzePromise,
                   closeCalls, outcomes>>
    /\ EngineOnly

\* The scan ends in phase `phase` with result `result`: the timer is
\* cleared and scan::end is emitted.
ScanEnds(phase, result) ==
    /\ enginePhase' = phase
    /\ hintsTimer' = IF result = "ScanTimeout" THEN "elapsed" ELSE "off"
    /\ engineLog' = Append(engineLog, "scan::end")
    /\ UNCHANGED <<analyzePromise, closeCalls, outcomes>>

\* A listener throws during an awaited dispatch: Scanning -> Failed.
ListenerThrows ==
    /\ enginePhase = "Scanning"
    /\ ScanEnds("Failed", "ListenerError")
    /\ UNCHANGED connectorCollect
    /\ EngineOnly

\* The promise of collect() settles.  In phase Scanning it ends the scan
\* (Completed when resolved, Failed when rejected); after the scan has
\* ended the connector was abandoned and nothing more happens.
CollectSettles(how) ==
    /\ connectorCollect = "pending"
    /\ connectorCollect' = how
    /\ IF enginePhase = "Scanning"
       THEN ScanEnds(IF how = "resolved" THEN "Completed" ELSE "Failed",
                     IF how = "resolved" THEN "resolved" ELSE "CollectError")
       ELSE UNCHANGED <<enginePhase, hintsTimer, analyzePromise, closeCalls,
                        engineLog, outcomes>>
    /\ EngineOnly

\* hintsTimeout elapses during the scan: Scanning -> Failed, whatever the
\* connector is doing.
TimeoutElapses ==
    /\ enginePhase = "Scanning"
    /\ hintsTimer = "armed"
    /\ ScanEnds("Failed", "ScanTimeout")
    /\ UNCHANGED connectorCollect
    /\ EngineOnly

\* Why the scan ended, read from the cycle's state.
ScanResult ==
    IF enginePhase = "Completed" THEN "resolved"
    ELSE IF hintsTimer = "elapsed" THEN "ScanTimeout"
    ELSE IF connectorCollect = "rejected" THEN "CollectError"
    ELSE "ListenerError"

\* A cleanup that runs on the success path only.
CleanupOnSuccess == enginePhase = "Completed"

\* The cleanup block: runs on the success and on the failure path.
CleanupRuns == enginePhase \in TerminalPhases

\* The cleanup block calls connector.close(), then the promise of
\* analyze() settles with the scan's result.
CloseConnector ==
    /\ CleanupRuns
    /\ analyzePromise = "pending"
    /\ closeCalls' = closeCalls + 1
    /\ analyzePromise' = ScanResult
    /\ UNCHANGED <<enginePhase, connectorCollect, hintsTimer, engineLog, outcomes>>
    /\ EngineOnly

\* The Analyzer records the result and takes a new engine for its next
\* target.
NextTarget ==
    /\ AnalyzeSettled
    /\ Len(outcomes) < MaxScans
    /\ outcomes' = Append(outcomes, [result |-> analyzePromise, closeCalls |-> closeCalls,
                                     collect |-> connectorCollect,
                                     events |-> Len(engineLog)])
    /\ enginePhase' = "Idle"
    /\ connectorCollect' = "none"
    /\ hintsTimer' = "off"
    /\ analyzePromise' = "none"
    /\ closeCalls' = 0
    /\ engineLog' = <<>>
    /\ EngineOnly

NextEngine ==
    \/ EngineAnalyze
    \/ ConnectorEmits
    \/ ListenerThrows
    \/ \E how \in {"resolved", "rejected"} : CollectSettles(how)
    \/ TimeoutElapses
    \/ CloseConnector
    \/ NextTarget

\* Only the engine's scan cycle runs.
StartEngine == InitEngine /\ IdleWeb /\ IdleCLI /\ IdleLoader /\ IdleHttps /\ IdleBus /\ IdleLocal
    /\ IdleExec
    /\ IdleShared
    /\ IdleComp
    /\ IdleCss

SpecEngine == StartEngine /\ [][NextEngine]_vars

\* The timer fires and the cleanup block runs when they can; nothing makes
\* the connector settle collect().
SpecEngineFair ==
    SpecEngine /\ WF_vars(TimeoutElapses) /\ WF_vars(CloseConnector)

(***************************************************************************)
(* Claims about the engine's scan cycle, checked under SpecEngineFair.     *)
(***************************************************************************)

\* C14: a scan whose collect() never settles ends with analyze() rejected
\* with ScanTimeout once hintsTimeout has elapsed; every scan that was
\* started settles, and close() has been called exactly once when it does,
\* whether the scan completed, timed out or failed for another reason.
C14_TimeoutRejectsAndClosesOnce ==
    /\ [](closeCalls <= 1)
    /\ [](AnalyzeSettled => closeCalls = 1)
    /\ [](\A i \in 1..Len(outcomes) : outcomes[i].closeCalls = 1)
    /\ []((AnalyzeSettled /\ hintsTimer = "elapsed") => analyzePromise = "ScanTimeout")
    /\ []((AnalyzeSettled /\ connectorCollect = "pending")
             => analyzePromise \in {"ScanTimeout", "ListenerError"})
    /\ ((enginePhase = "Scanning") ~> AnalyzeSettled)

\* analyze() was rejected with ScanTimeout while collect() is still pending,
\* close() having been called once.
C14_Witness ==
    /\ analyzePromise = "ScanTimeout"
    /\ connectorCollect = "pending"
    /\ closeCalls = 1


(***************************************************************************)
(* LocalConnector (connector-local): collect() over a file or a directory  *)
(* of the file system, and the watch session that follows it when the      *)
(* `watch` option is set.  The watcher is the chokidar stream the          *)
(* connector listens to.                                                   *)
(***************************************************************************)
LocalOnly == UNCHANGED <<webVars, cliVars, loaderVars, httpsVars, busVars, engineVars,
                 execVars, sharedVars, compVars, cssVars>>

\* Resources are numbered: the target itself, then the files under a
\* directory target.
TargetResource == 0
DirectoryFiles == 1..MaxFiles

\* The media type group the connector derives from a file's content type.
FileType(f) ==
    IF f = TargetResource THEN "script" ELSE IF f % 2 = 1 THEN "json" ELSE "html"

\* One engine.emitAsync(name, { resource }) call.
Event(name, resource) == [name |-> name, resource |-> resource]

FetchEndName(f) ==
    CASE FileType(f) = "script" -> "fetch::end::script"
      [] FileType(f) = "json" -> "fetch::end::json"
      [] OTHER -> "fetch::end::html"

FetchEndOf(f) == Event(FetchEndName(f), f)

FetchEndNames == {"fetch::end::script", "fetch::end::json", "fetch::end::html"}

\* The errors a watcher reports.
WatcherErrors == {"Error!", "EPERM"}

\* The notifications whose handler emits events.
NoteKinds == {"ready", "add", "change", "unlink"}

\* A constructed connector: a target, the watch option, the files the
\* target holds.
InitLocal ==
    /\ localPc = "new"
    /\ localTarget \in {"file", "directory", "remote"}
    /\ watch \in BOOLEAN
    /\ files \in SUBSET (DirectoryFiles \cup {TargetResource})
    /\ files = CASE localTarget = "file" -> {TargetResource}
                 [] localTarget = "remote" -> {}
                 [] OTHER -> files \ {TargetResource}
    /\ toFetch = {}
    /\ localEmitted = <<>>
    /\ localCollect = "none"
    /\ localError = "none"
    /\ watcher = "none"
    /\ handlers = <<>>

\* A slip of collect(): scan::start is emitted before the protocol of the
\* target is looked at.
LocalCollectEmitsFirst ==
    /\ localPc = "new"
    /\ localEmitted' = Append(localEmitted, Event("scan::start", TargetResource))
    /\ IF localTarget = "remote"
       THEN /\ localCollect' = "rejected"
            /\ localError' = "NotLocal"
            /\ localPc' = "done"
            /\ UNCHANGED toFetch
       ELSE /\ localCollect' = "pending"
            /\ toFetch' = files
            /\ localPc' = IF localTarget = "file" THEN "fetchStart" ELSE "fetching"
            /\ UNCHANGED localError
    /\ UNCHANGED <<localTarget, watch, files, watcher, handlers>>
    /\ LocalOnly

\* collect(target): a target that is not a file: url throws 'Connector local
\* only works with local files or directories'; otherwise scan::start is
\* emitted and the files to fetch are the target file or the files found
\* under the directory.
LocalCollect ==
    /\ localPc = "new"
    /\ IF localTarget = "remote"
       THEN /\ localCollect' = "rejected"
            /\ localError' = "NotLocal"
            /\ localPc' = "done"
            /\ UNCHANGED <<localEmitted, toFetch>>
       ELSE /\ localEmitted' = Append(localEmitted, Event("scan::start", TargetResource))
            /\ localCollect' = "pending"
            /\ toFetch' = files
            /\ localPc' = IF localTarget = "file" THEN "fetchStart" ELSE "fetching"
            /\ UNCHANGED localError
    /\ UNCHANGED <<localTarget, watch, files, watcher, handlers>>
    /\ LocalOnly

\* A file target: fetch::start::target is emitted before the file is read.
EmitFetchStartTarget ==
    /\ localPc = "fetchStart"
    /\ localEmitted' = Append(localEmitted, Event("fetch::start::target", TargetResource))
    /\ localPc' = "fetching"
    /\ UNCHANGED <<localTarget, watch, files, toFetch, localCollect, localError,
                   watcher, handlers>>
    /\ LocalOnly

\* fetch of one file of the initial scan: fetch::end::<type> for it.
FetchFile(f) ==
    /\ localPc = "fetching"
    /\ f \in toFetch
    /\ localEmitted' = Append(localEmitted, FetchEndOf(f))
    /\ toFetch' = toFetch \ {f}
    /\ UNCHANGED <<localPc, localTarget, watch, files, localCollect, localError,
                   watcher, handlers>>
    /\ LocalOnly

\* All files fetched: without watch, scan::end is emitted and collect()
\* resolves; with watch the watcher is set up and collect() stays pending.
InitialScanDone ==
    /\ localPc = "fetching"
    /\ toFetch = {}
    /\ IF watch
       THEN /\ watcher' = "open"
            /\ localPc' = "watching"
            /\ UNCHANGED <<localEmitted, localCollect>>
       ELSE /\ localEmitted' = Append(localEmitted, Event("scan::end", TargetResource))
            /\ localCollect' = "resolved"
            /\ localPc' = "done"
            /\ UNCHANGED watcher
    /\ UNCHANGED <<localTarget, watch, files, toFetch, localError, handlers>>
    /\ LocalOnly

\* The file a notification is about: a new html file is added, the json
\* file of the directory is changed or removed; 'ready' names no file.
NotifiedFile(kind) ==
    CASE kind = "add" -> 2
      [] kind \in {"change", "unlink"} -> 1
      [] OTHER -> TargetResource

\* A notification of the watcher starts its handler: 'add' and 'change'
\* fetch the file first, 'ready' and 'unlink' go straight to notify().
Handler(kind) ==
    [kind |-> kind, file |-> NotifiedFile(kind), at |-> Len(localEmitted),
     pc |-> IF kind \in {"add", "change"} THEN "fetch" ELSE "notify",
     fetched |-> 0, end |-> 0]

WatcherNotifies(kind) ==
    /\ watcher = "open"
    /\ Len(handlers) < MaxNotes
    /\ kind \in NoteKinds
    /\ handlers' = Append(handlers, Handler(kind))
    /\ UNCHANGED <<localPc, localTarget, watch, files, toFetch, localEmitted,
                   localCollect, localError, watcher>>
    /\ LocalOnly

\* The handler of 'add' or 'change' fetches the file: fetch::end::<type>.
HandlerFetches(i) ==
    /\ i \in 1..Len(handlers)
    /\ handlers[i].pc = "fetch"
    /\ localEmitted' = Append(localEmitted, FetchEndOf(handlers[i].file))
    /\ handlers' = [handlers EXCEPT ![i].pc = "notify",
                                    ![i].fetched = Len(localEmitted) + 1]
    /\ UNCHANGED <<localPc, localTarget, watch, files, toFetch, localCollect,
                   localError, watcher>>
    /\ LocalOnly

\* A handler that starts the increment over: scan::start, then scan::end.
HandlerRescans(i) ==
    /\ i \in 1..Len(handlers)
    /\ handlers[i].pc = "notify"
    /\ localEmitted' = Append(Append(localEmitted, Event("scan::start", TargetResource)),
                              Event("scan::end", TargetResource))
    /\ handlers' = [handlers EXCEPT ![i].pc = "done",
                                    ![i].end = Len(localEmitted) + 2]
    /\ UNCHANGED <<localPc, localTarget, watch, files, toFetch, localCollect,
                   localError, watcher>>
    /\ LocalOnly

\* notify(): every handler ends with scan::end for the target.
HandlerNotifies(i) ==
    /\ i \in 1..Len(handlers)
    /\ handlers[i].pc = "notify"
    /\ localEmitted' = Append(localEmitted, Event("scan::end", TargetResource))
    /\ handlers' = [handlers EXCEPT ![i].pc = "done",
                                    ![i].end = Len(localEmitted) + 1]
    /\ UNCHANGED <<localPc, localTarget, watch, files, toFetch, localCollect,
                   localError, watcher>>
    /\ LocalOnly

\* An 'error' handler that only logs the error.
WatcherErrorLogged(e) ==
    /\ watcher = "open"
    /\ e \in WatcherErrors
    /\ watcher' = "failed"
    /\ UNCHANGED <<localPc, localTarget, watch, files, toFetch, localEmitted,
                   localCollect, localError, handlers>>
    /\ LocalOnly

\* 'error' of the watcher: collect() rejects with the error.
WatcherError(e) ==
    /\ watcher = "open"
    /\ e \in WatcherErrors
    /\ watcher' = "failed"
    /\ localCollect' = "rejected"
    /\ localError' = e
    /\ localPc' = "done"
    /\ UNCHANGED <<localTarget, watch, files, toFetch, localEmitted, handlers>>
    /\ LocalOnly

\* 'close' of the watcher: collect() resolves.
WatcherClose ==
    /\ watcher = "open"
    /\ watcher' = "closed"
    /\ localCollect' = "resolved"
    /\ localPc' = "done"
    /\ UNCHANGED <<localTarget, watch, files, toFetch, localEmitted, localError,
                   handlers>>
    /\ LocalOnly

NextLocal ==
    \/ LocalCollect
    \/ EmitFetchStartTarget
    \/ \E f \in DirectoryFiles \cup {TargetResource} : FetchFile(f)
    \/ InitialScanDone
    \/ \E kind \in NoteKinds : WatcherNotifies(kind)
    \/ \E i \in 1..MaxNotes : HandlerFetches(i)
    \/ \E i \in 1..MaxNotes : HandlerNotifies(i)
    \/ \E e \in WatcherErrors : WatcherError(e)
    \/ WatcherClose

StartLocal ==
    InitLocal /\ IdleWeb /\ IdleCLI /\ IdleLoader /\ IdleHttps /\ IdleBus /\ IdleEngine
    /\ IdleExec
    /\ IdleShared
    /\ IdleComp
    /\ IdleCss

SpecLocal == StartLocal /\ [][NextLocal]_vars


(***************************************************************************)
(* Claims about LocalConnector, checked under SpecLocal.                   *)
(***************************************************************************)
CountName(names) ==
    Cardinality({k \in 1..Len(localEmitted) : localEmitted[k].name \in names})

WatchSession == watch /\ localTarget \in {"file", "directory"} /\ localCollect # "none"

Handled == {i \in 1..Len(handlers) : handlers[i].pc = "done"}

\* C15: in watch mode every file added or changed is bracketed by its own
\* scan::start and scan::end: between the notification and the scan::end that
\* ends its handler, a scan::start is emitted.
C15_ChangeBracketedByScanStart ==
    \A i \in Handled :
        handlers[i].kind \in {"add", "change"} =>
            \E k \in (handlers[i].at + 1)..(handlers[i].end - 1) :
                localEmitted[k].name = "scan::start"

\* C16: a watcher 'error' rejects the outstanding collect() promise with
\* exactly that error: once the watcher has failed, collect() is rejected
\* with a watcher error and stays so, and the step that fails the watcher
\* is the step that rejects.
C16_WatcherErrorRejects ==
    /\ [](watcher = "failed" => (localCollect = "rejected" /\ localError \in WatcherErrors))
    /\ [][(watcher = "open" /\ watcher' = "failed") =>
              (localCollect = "pending" /\ localCollect' = "rejected"
               /\ localError' \in WatcherErrors)]_vars
    /\ [][localCollect = "rejected" => (localCollect' = "rejected" /\ localError' = localError)]_vars

C16_Witness ==
    /\ watcher = "failed" /\ localCollect = "rejected" /\ localError = "Error!"
    /\ Len(handlers) > 0

\* C17: in a watch session scan::start is emitted exactly once; every
\* scan::end comes after a notification; each handled notification has its
\* own scan::end, 'add' and 'change' with one fetch::end::<type> of the file
\* before it, 'ready' and 'unlink' with none; collect() resolves only when
\* the watcher closes.
C17_WatchSessionEvents ==
    WatchSession =>
        /\ CountName({"scan::start"}) = 1
        /\ localEmitted[1].name = "scan::start"
        /\ \A k \in 1..Len(localEmitted) :
               localEmitted[k].name = "scan::end" =>
                   \E i \in 1..Len(handlers) : handlers[i].at < k
        /\ CountName({"scan::end"}) = Cardinality(Handled)
        /\ CountName(FetchEndNames) =
               Cardinality(files \ toFetch)
               + Cardinality({i \in 1..Len(handlers) :
                                  handlers[i].kind \in {"add", "change"}
                                  /\ handlers[i].pc # "fetch"})
        /\ \A i \in Handled :
               /\ handlers[i].at < handlers[i].end
               /\ localEmitted[handlers[i].end] = Event("scan::end", TargetResource)
               /\ \A j \in Handled : handlers[j].end = handlers[i].end => j = i
               /\ IF handlers[i].kind \in {"add", "change"}
                  THEN /\ handlers[i].at < handlers[i].fetched
                       /\ handlers[i].fetched < handlers[i].end
                       /\ localEmitted[handlers[i].fetched] = FetchEndOf(handlers[i].file)
                  ELSE handlers[i].fetched = 0
        /\ (localCollect = "resolved" => watcher = "closed")
        /\ (watcher = "closed" => localCollect = "resolved")

C17_Witness ==
    /\ WatchSession /\ localCollect = "resolved"
    /\ \E i, j \in Handled :
           handlers[i].kind = "add" /\ handlers[j].kind = "unlink"

\* C18: without watch, a file target emits exactly scan::start,
\* fetch::start::target, fetch::end::<type>, scan::end, in that order; a
\* directory target emits one scan::start, one fetch::end::<type> per file
\* and one scan::end, and never fetch::start::target; any other target
\* rejects and emits nothing.
FileSequence ==
    <<Event("scan::start", TargetResource), Event("fetch::start::target", TargetResource),
      FetchEndOf(TargetResource), Event("scan::end", TargetResource)>>

C18_OneShotEvents ==
    ~watch =>
        /\ localTarget = "file" =>
               /\ Len(localEmitted) <= Len(FileSequence)
               /\ localEmitted = SubSeq(FileSequence, 1, Len(localEmitted))
               /\ (localCollect = "resolved" <=> localEmitted = FileSequence)
        /\ localTarget = "directory" =>
               /\ CountName({"fetch::start::target"}) = 0
               /\ CountName({"scan::start"}) <= 1
               /\ CountName({"scan::end"}) <= 1
               /\ \A f \in DirectoryFiles :
                      Cardinality({k \in 1..Len(localEmitted) :
                                       localEmitted[k].resource = f}) <= 1
               /\ localCollect = "resolved" =>
                      /\ CountName({"scan::start"}) = 1
                      /\ CountName({"scan::end"}) = 1
                      /\ Len(localEmitted) = Cardinality(files) + 2
                      /\ \A f \in files :
                             \E k \in 1..Len(localEmitted) : localEmitted[k] = FetchEndOf(f)
        /\ localTarget = "remote" =>
               /\ localEmitted = <<>>
               /\ localCollect \in {"none", "rejected"}
               /\ (localCollect = "rejected" => localError = "NotLocal")
               /\ (localPc = "done" => localCollect = "rejected")

C18_Witness ==
    /\ ~watch /\ localTarget = "directory" /\ localCollect = "resolved"
    /\ Cardinality(files) = 2


(***************************************************************************)
(* The CLI's execute (hint/src/lib/cli.ts): option parsing, then the       *)
(* actions of the module's cliActions list, tried one after the other.     *)
(***************************************************************************)
ExecOnly ==
    UNCHANGED <<webVars, cliVars, loaderVars, httpsVars, busVars, engineVars, localVars,
                sharedVars, compVars, cssVars>>

\* The actions ./cli/actions exports, in order.
Registered == [k \in 1..MaxActions |-> k]

\* What awaiting an action gives: it handled the options, it did not, or it
\* threw.
ActionOutcomes == {"true", "false", "throws"}

\* The module as loaded: every action is in the list, execute has not been
\* called.
InitExec ==
    /\ cliActions = Registered
    /\ execCalls = <<>>
    /\ loggedErrors = <<>>
    /\ notified = <<>>

\* The record of one call of execute: `pc` is "await" while an action is
\* awaited, "done" once the call resolved and "rejected" once it rejected;
\* `tried` holds the actions shifted off the list with what they gave
\* ("pending" while awaited), `result` what the call resolved to (-1 as
\* long as it has not resolved).
Call(pc, tried, result) == [pc |-> pc, tried |-> tried, result |-> result]
Tried(action, outcome) == [action |-> action, outcome |-> outcome]

\* What notifyIfNeeded meets: loadHintPackage or updateNotifier throws
\* ("unreadable"); the notifier knows of no update, of the version in use,
\* or of a newer one, for which notifier.notify returns or throws.
Updates == {"unreadable", "none", "current", "newer", "newerUnnotifiable"}

\* notifyIfNeeded(): whether notifier.notify is called, and whether the
\* function throws; it has no try block.
NotifyIfNeeded(update) ==
    [notifies |-> update \in {"newer", "newerUnnotifiable"},
     throws |-> update \in {"unreadable", "newerUnnotifiable"}]

\* The while loop of execute from its test to the next await or to the
\* return: with an action left and nothing handled, the first action is
\* shifted off cliActions and awaited.
Loop(c, tried, handled) ==
    IF Len(cliActions) > 0 /\ ~handled
    THEN /\ cliActions' = Tail(cliActions)
         /\ execCalls' = [execCalls EXCEPT
                              ![c] = Call("await", Append(tried, Tried(Head(cliActions), "pending")),
                                          -1)]
    ELSE /\ execCalls' = [execCalls EXCEPT
                              ![c] = Call("done", tried, IF handled THEN 0 ELSE 1)]
         /\ UNCHANGED cliActions

\* execute(args) up to its first await: options.parse(args) throws and the
\* message is logged, 1 returned; or notifyIfNeeded() runs, outside any try
\* block, so that its throw rejects the promise of execute; or the loop
\* starts.
Execute(parses, update) ==
    /\ Len(execCalls) < MaxCalls
    /\ update \in Updates
    /\ IF parses
       THEN LET c == Len(execCalls) + 1
                started == Append(execCalls, Call("parsed", <<>>, -1))
                notify == NotifyIfNeeded(update)
            IN /\ IF notify.throws
                  THEN /\ execCalls' = [started EXCEPT ![c] = Call("rejected", <<>>, -1)]
                       /\ UNCHANGED cliActions
                  ELSE IF Len(cliActions) > 0
                  THEN /\ cliActions' = Tail(cliActions)
                       /\ execCalls' = [started EXCEPT
                                            ![c] = Call("await",
                                                        <<Tried(Head(cliActions), "pending")>>,
                                                        -1)]
                  ELSE /\ execCalls' = [started EXCEPT ![c] = Call("done", <<>>, 1)]
                       /\ UNCHANGED cliActions
               /\ notified' = IF notify.notifies THEN Append(notified, c) ELSE notified
               /\ UNCHANGED loggedErrors
       ELSE /\ execCalls' = Append(execCalls, Call("done", <<>>, 1))
            /\ loggedErrors' = Append(loggedErrors, <<Len(execCalls) + 1, "message">>)
            /\ UNCHANGED <<cliActions, notified>>
    /\ ExecOnly

\* `handled = await action(currentOptions)` settles: a throw is logged and
\* 1 returned; otherwise the loop goes on with the value.
ActionSettles(c, outcome) ==
    /\ c \in 1..Len(execCalls)
    /\ execCalls[c].pc = "await"
    /\ outcome \in ActionOutcomes
    /\ LET n == Len(execCalls[c].tried)
           tried == [execCalls[c].tried EXCEPT ![n].outcome = outcome]
       IN IF outcome = "throws"
          THEN /\ loggedErrors' = Append(loggedErrors, <<c, "error">>)
               /\ execCalls' = [execCalls EXCEPT ![c] = Call("done", tried, 1)]
               /\ UNCHANGED cliActions
          ELSE /\ Loop(c, tried, outcome = "true")
               /\ UNCHANGED loggedErrors
    /\ UNCHANGED notified
    /\ ExecOnly

NextExec ==
    \/ \E parses \in BOOLEAN, update \in Updates : Execute(parses, update)
    \/ \E c \in 1..MaxCalls, outcome \in ActionOutcomes : ActionSettles(c, outcome)

StartExec ==
    InitExec /\ IdleWeb /\ IdleCLI /\ IdleLoader /\ IdleHttps /\ IdleBus /\ IdleEngine
    /\ IdleLocal
    /\ IdleShared
    /\ IdleComp
    /\ IdleCss

SpecExec == StartExec /\ [][NextExec]_vars

(***************************************************************************)
(* Claims about execute, checked under SpecExec.                           *)
(***************************************************************************)
ErrorsOf(c) == {e \in 1..Len(loggedErrors) : loggedErrors[e][1] = c}

\* C22: execute only returns exit codes: it never rejects, and a call that
\* has ended resolved to 0 or 1; a call whose options did not parse logged
\* the parser's message once and nothing else, tried no action and resolved
\* to 1.
C22_OnlyExitCodes ==
    \A c \in 1..Len(execCalls) :
        /\ execCalls[c].pc # "rejected"
        /\ execCalls[c].pc = "done" <=> execCalls[c].result \in {0, 1}
        /\ execCalls[c].pc # "done" => execCalls[c].result = -1
        /\ (\E e \in ErrorsOf(c) : loggedErrors[e][2] = "message") =>
               /\ Cardinality(ErrorsOf(c)) = 1
               /\ execCalls[c].tried = <<>>
               /\ execCalls[c].result = 1
        /\ (execCalls[c].pc = "done" /\ ErrorsOf(c) = {} /\ execCalls[c].result = 1) =>
               \A k \in 1..Len(execCalls[c].tried) : execCalls[c].tried[k].outcome = "false"

\* C29: a call of execute whose options parsed tries the registered actions
\* in order from the first, one at a time, every action before the last
\* tried having returned false; it ends after the first that returns true
\* (resolving to 0), after one that throws (the error logged, resolving to
\* 1), or after the last registered action returned false (resolving to 1).
C29_ActionsInOrderUntilHandled ==
    \A c \in 1..Len(execCalls) :
        LET tried == execCalls[c].tried
            n == Len(tried)
            parsed == ~\E e \in ErrorsOf(c) : loggedErrors[e][2] = "message"
        IN parsed =>
            /\ n <= Len(Registered)
            /\ \A k \in 1..n : tried[k].action = Registered[k]
            /\ \A k \in 1..(n - 1) : tried[k].outcome = "false"
            /\ execCalls[c].pc = "done" =>
                   /\ execCalls[c].result = 0 <=> (n > 0 /\ tried[n].outcome = "true")
                   /\ (n > 0 /\ tried[n].outcome = "throws") =>
                          /\ Cardinality(ErrorsOf(c)) = 1
                          /\ execCalls[c].result = 1
                   /\ (n = 0 \/ tried[n].outcome = "false") => n = Len(Registered)


(***************************************************************************)
(* loadWebhint, loadSharedWebhint and updateSharedWebhint of the VS Code   *)
(* extension.  loadPackage is not part of the sources at hand: a load that *)
(* fails may throw or may return a promise that rejects.                   *)
(***************************************************************************)
SharedOnly ==
    UNCHANGED <<webVars, cliVars, loaderVars, httpsVars, busVars, engineVars, localVars,
                execVars, compVars, cssVars>>

\* oneDayInMs, in half days.
Day == 2

\* What a loadPackage call gives: the package, a throw, or a promise that
\* rejects; and the two ways it fails.
LoadOutcomes == {"package", "throws", "rejects"}
LoadFailures == {"throws", "rejects"}

\* One loadPackage call: where from, and what it gave.
Attempt(from, outcome) == [from |-> from, outcome |-> outcome]

\* One call of loadWebhint.
Load(directory, pc, tried, result) ==
    [directory |-> directory, pc |-> pc, attempts |-> tried, result |-> result]

\* One call of updateSharedWebhint: by a load (its number) or by a timer (0),
\* the await it is suspended at, what it created in globalStoragePath, the
\* answer of hasFile(lastUpdateFile), the text read from last-update.txt and
\* the text handed to writeFile.
Update(by, pc, made, has, read, stamp) ==
    [by |-> by, pc |-> pc, made |-> made, has |-> has, read |-> read, stamp |-> stamp]

\* updateSharedWebhint up to its first await: hasFile(globalStoragePath).
StartUpdate(by) == Update(by, "hasDir", {}, FALSE, -1, -1)

\* One call of installWebhint.
Install(u, start, outcome, wrote) ==
    [update |-> u, start |-> start, outcome |-> outcome, wrote |-> wrote]

\* The extension starts with or without a shared copy from an earlier
\* session; a shared copy may have a last-update.txt written half a day ago.
InitShared ==
    /\ now = Day
    /\ sharedPackage \in BOOLEAN
    /\ lastUpdate \in {-1, Day - 1}
    /\ (lastUpdate # -1 => sharedPackage)
    /\ loads = <<>>
    /\ updates = <<>>
    /\ sharedInstalls = <<>>
    /\ timers = 0

\* loadSharedWebhint up to its first suspension, for the load being appended
\* with the attempts made so far.  loadPackage from globalStoragePath returns
\* the package, or a promise that rejects, and the function yields at its
\* await; or it throws, the catch block runs at once, and
\* updateSharedWebhint is called and awaited.
LoadSharedWebhint(directory, tried, failure) ==
    IF sharedPackage
    THEN /\ loads' = Append(loads, Load(directory, "loaded",
                                        Append(tried, Attempt("shared", "package")),
                                        "pending"))
         /\ UNCHANGED updates
    ELSE IF failure = "rejects"
    THEN /\ loads' = Append(loads, Load(directory, "failed",
                                        Append(tried, Attempt("shared", "rejects")),
                                        "pending"))
         /\ UNCHANGED updates
    ELSE /\ loads' = Append(loads, Load(directory, "update",
                                        Append(tried, Attempt("shared", "throws")),
                                        "pending"))
         /\ updates' = Append(updates, StartUpdate(Len(loads) + 1))

\* loadWebhint(directory, globalStoragePath), which is no async function.
\* With a directory it returns what loadPackage from it returns: the
\* package, or a promise that rejects, which goes to the caller as it is;
\* only when loadPackage throws does the catch block run and call
\* loadSharedWebhint.  Without a directory, loadSharedWebhint at once.
LoadWebhint(directory, workspace, failure) ==
    /\ Len(loads) < MaxLoads
    /\ IF directory
       THEN IF workspace = "package"
            THEN /\ loads' = Append(loads, Load(directory, "done",
                                                <<Attempt("workspace", "package")>>,
                                                "workspace"))
                 /\ UNCHANGED updates
            ELSE IF workspace = "rejects"
            THEN /\ loads' = Append(loads, Load(directory, "done",
                                                <<Attempt("workspace", "rejects")>>,
                                                "rejected"))
                 /\ UNCHANGED updates
            ELSE LoadSharedWebhint(directory, <<Attempt("workspace", "throws")>>, failure)
       ELSE LoadSharedWebhint(directory, <<>>, failure)
    /\ UNCHANGED <<now, sharedPackage, lastUpdate, sharedInstalls, timers>>
    /\ SharedOnly

\* loadSharedWebhint resumes after `await loadPackage(...)`.  With the
\* package the update is scheduled with setTimeout and the package returned;
\* with a rejection the catch block runs and updateSharedWebhint is called
\* and awaited.
LoadResumes(l) ==
    /\ l \in 1..Len(loads)
    /\ loads[l].pc \in {"loaded", "failed"}
    /\ IF loads[l].pc = "loaded"
       THEN /\ loads' = [loads EXCEPT ![l].pc = "done", ![l].result = "shared"]
            /\ timers' = timers + 1
            /\ UNCHANGED updates
       ELSE /\ loads' = [loads EXCEPT ![l].pc = "update"]
            /\ updates' = Append(updates, StartUpdate(l))
            /\ UNCHANGED timers
    /\ UNCHANGED <<now, sharedPackage, lastUpdate, sharedInstalls>>
    /\ SharedOnly

\* The setTimeout callback of loadSharedWebhint calls updateSharedWebhint.
TimerFires ==
    /\ timers > 0
    /\ timers' = timers - 1
    /\ updates' = Append(updates, StartUpdate(0))
    /\ UNCHANGED <<now, sharedPackage, lastUpdate, loads, sharedInstalls>>
    /\ SharedOnly

\* The throttle of updateSharedWebhint, on the text read from the file.
Throttled(read) == read > now - Day

\* The update calls hasFile(lastUpdateFile); the answer is that of the file
\* system at the call.
CallHasLastUpdate(u) ==
    [updates EXCEPT ![u].pc = "hasLastUpdate", ![u].has = (lastUpdate # -1)]

\* The update calls installWebhint.
CallInstall(u) ==
    /\ updates' = [updates EXCEPT ![u].pc = "install"]
    /\ sharedInstalls' = Append(sharedInstalls, Install(u, now, "running", -1))

\* What is in globalStoragePath besides last-update.txt: a shared copy comes
\* with its directory and its package.json; otherwise they are there once an
\* update has made them.
DirExists ==
    sharedPackage \/ \E u \in 1..Len(updates) : "globalStoragePath" \in updates[u].made
PackageJsonExists ==
    sharedPackage \/ \E u \in 1..Len(updates) : "package.json" \in updates[u].made

\* hasFile(globalStoragePath) settled: mkdir is called when the directory
\* is not there, hasFile(package.json) otherwise.
HasDirSettles(u) ==
    /\ u \in 1..Len(updates)
    /\ updates[u].pc = "hasDir"
    /\ updates' = [updates EXCEPT ![u].pc = IF DirExists THEN "hasPackageJson" ELSE "mkdir"]
    /\ UNCHANGED <<now, sharedPackage, lastUpdate, loads, sharedInstalls, timers>>
    /\ SharedOnly

\* mkdir settled: hasFile(package.json) is called, or the catch block ends
\* the update.
MkdirSettles(u, ok) ==
    /\ u \in 1..Len(updates)
    /\ updates[u].pc = "mkdir"
    /\ updates' = IF ok
                  THEN [updates EXCEPT ![u].pc = "hasPackageJson",
                                       ![u].made = @ \cup {"globalStoragePath"}]
                  ELSE [updates EXCEPT ![u].pc = "done"]
    /\ UNCHANGED <<now, sharedPackage, lastUpdate, loads, sharedInstalls, timers>>
    /\ SharedOnly

\* hasFile(package.json) settled: createPackageJson is called when the file
\* is not there, hasFile(lastUpdateFile) otherwise.
HasPackageJsonSettles(u) ==
    /\ u \in 1..Len(updates)
    /\ updates[u].pc = "hasPackageJson"
    /\ updates' = IF PackageJsonExists THEN CallHasLastUpdate(u)
                  ELSE [updates EXCEPT ![u].pc = "createPackageJson"]
    /\ UNCHANGED <<now, sharedPackage, lastUpdate, loads, sharedInstalls, timers>>
    /\ SharedOnly

\* createPackageJson settled: hasFile(lastUpdateFile) is called, or the
\* catch block ends the update.
CreatePackageJsonSettles(u, ok) ==
    /\ u \in 1..Len(updates)
    /\ updates[u].pc = "createPackageJson"
    /\ updates' = IF ok
                  THEN [CallHasLastUpdate(u) EXCEPT ![u].made = @ \cup {"package.json"}]
                  ELSE [updates EXCEPT ![u].pc = "done"]
    /\ UNCHANGED <<now, sharedPackage, lastUpdate, loads, sharedInstalls, timers>>
    /\ SharedOnly

\* hasFile(lastUpdateFile) settled with the answer it got: readFile is
\* called when the file was there, installWebhint otherwise.
HasLastUpdateSettles(u) ==
    /\ u \in 1..Len(updates)
    /\ updates[u].pc = "hasLastUpdate"
    /\ IF updates[u].has
       THEN /\ updates' = [updates EXCEPT ![u].pc = "readLastUpdate", ![u].read = lastUpdate]
            /\ UNCHANGED sharedInstalls
       ELSE CallInstall(u)
    /\ UNCHANGED <<now, sharedPackage, lastUpdate, loads, timers>>
    /\ SharedOnly

\* readFile settled: when it rejected the catch block ends the update; when
\* the text read is less than a day old the update returns; otherwise
\* installWebhint is called.
ReadLastUpdateSettles(u, ok) ==
    /\ u \in 1..Len(updates)
    /\ updates[u].pc = "readLastUpdate"
    /\ IF ok /\ ~Throttled(updates[u].read)
       THEN CallInstall(u)
       ELSE /\ updates' = [updates EXCEPT ![u].pc = "done"]
            /\ UNCHANGED sharedInstalls
    /\ UNCHANGED <<now, sharedPackage, lastUpdate, loads, timers>>
    /\ SharedOnly

\* The install of an update call.
InstallOf(u) == CHOOSE i \in 1..Len(sharedInstalls) : sharedInstalls[i].update = u

\* installWebhint settles: when it resolves, writeFile is called with
\* Date.now(); when it rejects, the catch block warns and nothing is
\* written.
InstallSettles(u, ok) ==
    /\ u \in 1..Len(updates)
    /\ updates[u].pc = "install"
    /\ IF ok
       THEN /\ updates' = [updates EXCEPT ![u].pc = "write", ![u].stamp = now]
            /\ sharedInstalls' = [sharedInstalls EXCEPT ![InstallOf(u)].outcome = "ok"]
            /\ sharedPackage' = TRUE
       ELSE /\ updates' = [updates EXCEPT ![u].pc = "done"]
            /\ sharedInstalls' = [sharedInstalls EXCEPT ![InstallOf(u)].outcome = "failed"]
            /\ UNCHANGED sharedPackage
    /\ UNCHANGED <<now, lastUpdate, loads, timers>>
    /\ SharedOnly

\* writeFile settles: last-update.txt holds the text handed to it, or it
\* rejected, the catch block warns and the file is as it was.
WriteSettles(u, ok) ==
    /\ u \in 1..Len(updates)
    /\ updates[u].pc = "write"
    /\ updates' = [updates EXCEPT ![u].pc = "done"]
    /\ IF ok
       THEN /\ lastUpdate' = updates[u].stamp
            /\ sharedInstalls' = [sharedInstalls EXCEPT ![InstallOf(u)].wrote = updates[u].stamp]
       ELSE UNCHANGED <<lastUpdate, sharedInstalls>>
    /\ UNCHANGED <<now, sharedPackage, loads, timers>>
    /\ SharedOnly

\* loadSharedWebhint after `await updateSharedWebhint(...)`:
\* `return loadPackage(...)` inside the inner try.  A throw is caught and
\* null returned; a promise that rejects is returned without an await, so it
\* passes the catch block and loadSharedWebhint rejects.
LoadAfterUpdate(l, failure) ==
    /\ l \in 1..Len(loads)
    /\ loads[l].pc = "update"
    /\ \E u \in 1..Len(updates) : updates[u].by = l /\ updates[u].pc = "done"
    /\ LET outcome == IF sharedPackage THEN "package" ELSE failure
       IN loads' = [loads EXCEPT
                        ![l].pc = "done",
                        ![l].attempts = Append(@, Attempt("shared", outcome)),
                        ![l].result = CASE outcome = "package" -> "shared"
                                        [] outcome = "throws" -> "null"
                                        [] OTHER -> "rejected"]
    /\ UNCHANGED <<now, sharedPackage, lastUpdate, updates, sharedInstalls, timers>>
    /\ SharedOnly

\* Half a day passes.
Tick ==
    /\ now < MaxClock
    /\ now' = now + 1
    /\ UNCHANGED <<sharedPackage, lastUpdate, loads, updates, sharedInstalls, timers>>
    /\ SharedOnly

NextShared ==
    \/ \E directory \in BOOLEAN, workspace \in LoadOutcomes, failure \in LoadFailures :
           LoadWebhint(directory, workspace, failure)
    \/ \E l \in 1..MaxLoads : LoadResumes(l)
    \/ TimerFires
    \/ \E u \in 1..MaxLoads : HasDirSettles(u)
    \/ \E u \in 1..MaxLoads, ok \in BOOLEAN : MkdirSettles(u, ok)
    \/ \E u \in 1..MaxLoads : HasPackageJsonSettles(u)
    \/ \E u \in 1..MaxLoads, ok \in BOOLEAN : CreatePackageJsonSettles(u, ok)
    \/ \E u \in 1..MaxLoads : HasLastUpdateSettles(u)
    \/ \E u \in 1..MaxLoads, ok \in BOOLEAN : ReadLastUpdateSettles(u, ok)
    \/ \E u \in 1..MaxLoads, ok \in BOOLEAN : InstallSettles(u, ok)
    \/ \E u \in 1..MaxLoads, ok \in BOOLEAN : WriteSettles(u, ok)
    \/ \E l \in 1..MaxLoads, failure \in LoadFailures : LoadAfterUpdate(l, failure)
    \/ Tick

StartShared ==
    InitShared /\ IdleWeb /\ IdleCLI /\ IdleLoader /\ IdleHttps /\ IdleBus /\ IdleEngine
    /\ IdleLocal
    /\ IdleExec
    /\ IdleComp
    /\ IdleCss

SpecShared == StartShared /\ [][NextShared]_vars

(***************************************************************************)
(* Claims about loadWebhint, checked under SpecShared.                     *)
(***************************************************************************)
\* C23: a load with a directory tries the workspace first and, whenever that
\* attempt failed (loadPackage threw or its promise rejected), the shared
\* copy next; a load without a directory tries only the shared copy.
C23_WorkspaceThenShared ==
    \A l \in 1..Len(loads) :
        LET a == loads[l].attempts
        IN /\ Len(a) > 0
           /\ loads[l].directory =>
                  /\ a[1].from = "workspace"
                  /\ a[1].outcome = "package" =>
                         (Len(a) = 1 /\ loads[l].result = "workspace")
                  /\ a[1].outcome # "package" => (Len(a) > 1 /\ a[2].from = "shared")
           /\ ~loads[l].directory => \A k \in 1..Len(a) : a[k].from = "shared"
           /\ loads[l].result = "shared" => a[Len(a)] = Attempt("shared", "package")

\* C24: no two installs start less than a day apart, and last-update.txt is
\* written only by an update whose install succeeded.
C24_UpdatesThrottled ==
    /\ \A i, j \in 1..Len(sharedInstalls) :
           i < j => sharedInstalls[j].start - sharedInstalls[i].start >= Day
    /\ \A i \in 1..Len(sharedInstalls) :
           sharedInstalls[i].wrote # -1 => sharedInstalls[i].outcome = "ok"


(***************************************************************************)
(* HttpCompressionHint: validate, the listener of fetch::end::*            *)
(* (hint-http-compression).                                                *)
(***************************************************************************)
CompOnly ==
    UNCHANGED <<webVars, cliVars, loaderVars, httpsVars, busVars, engineVars, localVars,
                execVars, sharedVars, cssVars>>

\* CompressionCheckOptions: the defaults of getHintOptions are all true, the
\* user's hintOptions may switch any of them off.
Options(gzip, zopfli, brotli) == [gzip |-> gzip, zopfli |-> zopfli, brotli |-> brotli]
OptionSets == {Options(TRUE, TRUE, TRUE), Options(FALSE, TRUE, FALSE),
               Options(FALSE, FALSE, TRUE), Options(FALSE, FALSE, FALSE)}

\* A fetch::end::* event: its name, response.statusCode, the protocol of
\* resource and its file extension, response.mediaType, what
\* response.body.rawResponse() gives ("fails" when it throws, "gzip" for a
\* gzip member, "plain" otherwise), the content-encoding header ("" when
\* there is none) and whether there is a get-dictionary header.
FetchEnd(eventName, statusCode, protocol, extension, mediaType, rawResponse, contentEncoding, getDictionary) ==
    [eventName |-> eventName, statusCode |-> statusCode, protocol |-> protocol,
     extension |-> extension, mediaType |-> mediaType, rawResponse |-> rawResponse,
     contentEncoding |-> contentEncoding, getDictionary |-> getDictionary]

FetchEnds ==
    {FetchEnd("fetch::end::html", 200, "https", "html", "text/html", "gzip", "gzip", FALSE),
     FetchEnd("fetch::end::script", 200, "http", "js", "text/javascript", "plain", "", FALSE),
     FetchEnd("fetch::end::html", 200, "https", "html", "text/html", "fails", "deflate", FALSE),
     FetchEnd("fetch::end::script", 200, "https", "js", "text/javascript", "gzip", "x-gzip", TRUE),
     FetchEnd("fetch::end::script", 200, "https", "js", "text/javascript", "plain", "x-gzip", TRUE),
     FetchEnd("fetch::end::html", 204, "https", "html", "text/html", "plain", "", FALSE),
     FetchEnd("fetch::end::script", 200, "data", "js", "text/javascript", "plain", "", FALSE),
     FetchEnd("fetch::end::image", 200, "https", "svg", "image/svg+xml", "gzip", "", FALSE),
     FetchEnd("fetch::end::image", 200, "https", "svg", "image/svg+xml", "gzip", "gzip", FALSE),
     FetchEnd("fetch::end::image", 200, "https", "svgz", "application/octet-stream", "gzip", "", FALSE),
     FetchEnd("fetch::end::image", 200, "https", "png", "image/png", "plain", "gzip", FALSE),
     FetchEnd("fetch::end::image", 200, "https", "png", "image/png", "plain", "identity", FALSE),
     FetchEnd("fetch::end::image", 200, "https", "png", "image/png", "fails", "", FALSE)}

\* What getNetworkData resolves with: the kind of the raw response ("null"
\* when the request or the read failed and null is returned), the
\* content-encoding header, whether checkVaryHeader is content with the vary
\* and cache-control headers, and the size of the raw response compared with
\* that of the content.
NetworkData(raw, contentEncoding, vary, size) ==
    [raw |-> raw, contentEncoding |-> contentEncoding, vary |-> vary, size |-> size]
NoData == NetworkData("null", "", FALSE, "same")
Responses ==
    {NoData,
     NetworkData("plain", "", TRUE, "same"),
     NetworkData("gzip", "gzip", TRUE, "smaller"),
     NetworkData("gzip", "gzip", TRUE, "bigger"),
     NetworkData("zopfli", "gzip", FALSE, "smaller"),
     NetworkData("br", "", TRUE, "smaller"),
     NetworkData("br", "br", TRUE, "same")}

\* isRegularProtocol and isHTTP of @hint/utils-network.
isRegularProtocol(protocol) == protocol \in {"http", "https"}
isHTTP(protocol) == protocol = "http"

\* The tests on the bytes of a raw response.
isCompressedWithGzip(raw) == raw \in {"gzip", "zopfli"}
isNotCompressedWithZopfli(raw) == raw # "zopfli"
isCompressedWithBrotli(raw) == raw = "br"

\* responseIsCompressed: by its bytes, or by a content-encoding header other
\* than identity.
responseIsCompressed(raw, contentEncoding) ==
    \/ isCompressedWithGzip(raw)
    \/ isCompressedWithBrotli(raw)
    \/ (contentEncoding # "" /\ contentEncoding # "identity")

\* isCompressibleAccordingToMediaType: text media types and the listed ones.
isCompressibleAccordingToMediaType(mediaType) ==
    mediaType \in {"text/html", "text/javascript", "image/svg+xml"}

\* isSpecialCase: an SVG or .svgz file whose raw response is a gzip member.
isSpecialCase(event) ==
    /\ (event.mediaType = "image/svg+xml" \/ event.extension = "svgz")
    /\ isCompressedWithGzip(event.rawResponse)

\* One entry of a validation's log: a check called, a request issued through
\* context.fetchContent, or a context.report call with its message.
Entry(kind, what) == [kind |-> kind, what |-> what]

\* context.report called for each of the messages, in order.
Reported(log, messages) ==
    log \o [k \in 1..Len(messages) |-> Entry("report", messages[k])]

\* The message when the condition holds.
If(condition, message) == IF condition THEN <<message>> ELSE <<>>

\* generateSizeMessage
generateSizeMessage(size) ==
    IF size = "bigger" THEN <<"responseBiggerThan">> ELSE <<"responseSameSize">>

\* The Accept-Encoding value of the first request of a check.
AcceptEncoding(check) ==
    CASE check = "checkUncompressed" -> "identity"
      [] check = "checkGzipZopfli" -> "gzip"
      [] OTHER -> "br"

\* The options validate always takes from 'resource'.
shouldCheckResourceOnly(eventName) == resourceOptions

\* const shouldCheckIfCompressedWith =
\*     eventName === 'fetch::end::html' ? htmlOptions : resourceOptions
shouldCheckIfCompressedWith(eventName) ==
    IF eventName = "fetch::end::html" THEN htmlOptions ELSE resourceOptions

\* What validate calls once a check has settled.
AfterGzipZopfli(opts) == IF opts.brotli THEN "checkBrotli" ELSE "done"
AfterUncompressed(opts) ==
    IF opts.gzip \/ opts.zopfli THEN "checkGzipZopfli" ELSE AfterGzipZopfli(opts)
NextCheck(check, opts) ==
    CASE check = "checkForDisallowedCompressionMethods" -> "checkUncompressed"
      [] check = "checkUncompressed" -> AfterUncompressed(opts)
      [] check = "checkGzipZopfli" -> AfterGzipZopfli(opts)
      [] OTHER -> "done"

Checks == {"checkForDisallowedCompressionMethods", "checkUncompressed",
           "checkGzipZopfli", "checkBrotli"}

\* What a check does with the answer of a request: the messages it reports,
\* in order, and whether it goes on to its request with the User-Agent header.
Outcome(messages, agent) == [messages |-> messages, agent |-> agent]

\* checkForDisallowedCompressionMethods, for the response of the event (with
\* one encoding in its content-encoding header).
checkForDisallowedCompressionMethods(event) ==
    LET encoding == event.contentEncoding
        sdch == If(event.getDictionary, "responseShouldNotBeCompressed(sdch)")
    IN IF encoding = "" THEN <<>>
       ELSE IF encoding \in {"gzip", "br"} THEN sdch
       ELSE IF event.rawResponse = "fails" THEN <<"couldNotBeFetched">>
       ELSE IF encoding = "x-gzip" /\ isCompressedWithGzip(event.rawResponse) THEN <<>>
       ELSE <<"responseShouldNotBeCompressed">> \o sdch

\* checkUncompressed, once getNetworkData settled.
checkUncompressed(data) ==
    IF data = NoData THEN Outcome(<<"couldNotBeFetchedUncompressed">>, FALSE)
    ELSE Outcome(If(responseIsCompressed(data.raw, data.contentEncoding),
                    "shouldNotBeCompressedWithIdentity")
                 \o If(data.contentEncoding # "", "shouldNotIncludeWithIdentity"),
                 FALSE)

\* checkGzipZopfli up to its second request.
checkGzipZopfli(opts, data) ==
    LET compressedWithGzip == isCompressedWithGzip(data.raw)
        notCompressedWithZopfli == isNotCompressedWithZopfli(data.raw)
        itShouldNotBeCompressed ==
            data.contentEncoding = "gzip" /\ data.size \in {"same", "bigger"}
    IN IF data = NoData THEN Outcome(<<"couldNotBeFetchedGzip">>, FALSE)
       ELSE IF compressedWithGzip /\ itShouldNotBeCompressed
       THEN Outcome(generateSizeMessage(data.size), FALSE)
       ELSE IF ~compressedWithGzip /\ opts.gzip
       THEN Outcome(<<"responseShouldBeCompressedGzip(gzip)">>, FALSE)
       ELSE Outcome(If(notCompressedWithZopfli /\ opts.zopfli,
                       "responseShouldBeCompressedGzip(Zopfli)")
                    \o (IF opts.gzip \/ opts.zopfli
                        THEN If(~data.vary, "responseShouldIncludeVary")
                             \o If(data.contentEncoding # "gzip",
                                   "responseShouldIncludeContentEncoding(gzip)")
                        ELSE <<>>),
                    TRUE)

\* checkGzipZopfli from the answer of its second request on.
checkGzipZopfliAgent(opts, notCompressedWithZopfli, data) ==
    IF data = NoData THEN <<"couldNotBeFetchedGzip">>
    ELSE IF ~isCompressedWithGzip(data.raw) /\ opts.gzip THEN <<"compressedWithGzipAgent">>
    ELSE If(isNotCompressedWithZopfli(data.raw) /\ ~notCompressedWithZopfli /\ opts.zopfli,
            "compressedWithZopfliAgent")

\* checkBrotli up to its second request.
checkBrotli(protocol, data) ==
    LET compressedWithBrotli == isCompressedWithBrotli(data.raw)
        itShouldNotBeCompressed ==
            data.contentEncoding = "br" /\ data.size \in {"same", "bigger"}
    IN IF data = NoData THEN Outcome(<<"couldNotBeFetchedBrotli">>, FALSE)
       ELSE IF isHTTP(protocol)
       THEN Outcome(If(compressedWithBrotli, "noCompressedBrotliOverHTTP"), FALSE)
       ELSE IF compressedWithBrotli /\ itShouldNotBeCompressed
       THEN Outcome(generateSizeMessage(data.size), FALSE)
       ELSE IF ~compressedWithBrotli
       THEN Outcome(<<"compressedWithBrotliOverHTTPS">>, FALSE)
       ELSE Outcome(If(~data.vary, "responseShouldIncludeVary")
                    \o If(data.contentEncoding # "br",
                          "responseShouldIncludeContentEncoding(br)"),
                    TRUE)

\* checkBrotli from the answer of its second request on.
checkBrotliAgent(data) ==
    IF data = NoData THEN <<"couldNotBeFetchedBrotli">>
    ELSE If(~isCompressedWithBrotli(data.raw), "compressedWithBrotliOverHTTPSAgent")

\* The hint after its constructor.
InitComp ==
    /\ htmlOptions \in OptionSets
    /\ resourceOptions \in OptionSets
    /\ validations = <<>>
    /\ compLog = <<>>

\* Whether checkForDisallowedCompressionMethods reads the raw response: only
\* for an encoding other than gzip and br.
readsRawResponse(event) == event.contentEncoding \notin {"", "gzip", "br"}

\* What the running part of a check reports for the answer data of its
\* request (NoData when getNetworkData gave null).
Segment(val, opts, data) ==
    CASE val.pc = "checkUncompressed" -> checkUncompressed(data)
      [] val.pc = "checkGzipZopfli" /\ ~val.sniffed -> checkGzipZopfli(opts, data)
      [] val.pc = "checkGzipZopfli" /\ val.sniffed ->
             Outcome(checkGzipZopfliAgent(opts, val.notCompressedWithZopfli, data), FALSE)
      [] val.pc = "checkBrotli" /\ ~val.sniffed -> checkBrotli(val.event.protocol, data)
      [] OTHER -> Outcome(checkBrotliAgent(data), FALSE)

\* Whether the check, with the raw response at hand, awaits
\* zlib.brotliDecompress through isCompressedWithBrotli: checkBrotli always,
\* checkUncompressed (responseIsCompressed) unless the bytes are gzip.
awaitsBrotli(val, data) ==
    \/ val.pc = "checkBrotli"
    \/ (val.pc = "checkUncompressed" /\ ~isCompressedWithGzip(data.raw))

\* Whether checkBrotli awaits decompressBrotli again for the raw content:
\* over https, when the response is compressed with Brotli.
awaitsDecompress(val, data) ==
    /\ val.pc = "checkBrotli"
    /\ ~val.sniffed
    /\ ~isHTTP(val.event.protocol)
    /\ isCompressedWithBrotli(data.raw)

\* The validation and its log once the running part of a check has reported:
\* the check issues its request with the User-Agent header (getNetworkData
\* awaits context.fetchContent) or returns; validate is still at its await.
Reports(val, log, outcome, data) ==
    [val |-> IF outcome.agent
             THEN [val EXCEPT !.stage = "fetchContent", !.sniffed = TRUE, !.data = NoData,
                              !.notCompressedWithZopfli =
                                  val.pc = "checkGzipZopfli"
                                  /\ isNotCompressedWithZopfli(data.raw)]
             ELSE [val EXCEPT !.stage = "returned", !.data = NoData],
     log |-> IF outcome.agent
             THEN Append(Reported(log, outcome.messages), Entry("request", "User-Agent"))
             ELSE Reported(log, outcome.messages)]

\* The validation and its log once validate has called a check ("done":
\* validate returns).  checkForDisallowedCompressionMethods runs up to its
\* read of the raw response, or, when it reads nothing, to its end;
\* the other checks run up to context.fetchContent in getNetworkData.
Called(val, log, check) ==
    LET fresh == [val EXCEPT !.pc = check, !.sniffed = FALSE, !.data = NoData,
                             !.notCompressedWithZopfli = FALSE]
        entered == Append(log, Entry("check", check))
    IN IF check = "done"
       THEN [val |-> [fresh EXCEPT !.stage = "none"], log |-> log]
       ELSE IF check = "checkForDisallowedCompressionMethods"
       THEN IF readsRawResponse(val.event)
            THEN [val |-> [fresh EXCEPT !.stage = "rawResponse"], log |-> entered]
            ELSE [val |-> [fresh EXCEPT !.stage = "returned"],
                  log |-> Reported(entered, checkForDisallowedCompressionMethods(val.event))]
       ELSE [val |-> [fresh EXCEPT !.stage = "fetchContent"],
             log |-> Append(entered, Entry("request", AcceptEncoding(check)))]

\* validate(fetchEnd, eventName) up to its first await: nothing for a status
\* code other than 200 or a protocol that is not regular; otherwise
\* isSpecialCase is called and awaits the raw response.
Validate(event) ==
    /\ Len(validations) < MaxValidations
    /\ LET checked == event.statusCode = 200 /\ isRegularProtocol(event.protocol)
       IN validations' = Append(validations,
              [event |-> event,
               pc |-> IF checked THEN "isSpecialCase" ELSE "done",
               stage |-> IF checked THEN "rawResponse" ELSE "none",
               sniffed |-> FALSE,
               notCompressedWithZopfli |-> FALSE,
               data |-> NoData])
    /\ compLog' = Append(compLog, <<>>)
    /\ UNCHANGED <<htmlOptions, resourceOptions>>
    /\ CompOnly

\* The read of isSpecialCase settled: a raw response that cannot be read is
\* reported and is no special case; a special case is reported when the
\* content-encoding header is not gzip.  isSpecialCase returns; validate is
\* still at its await.
SpecialCaseSettles(v) ==
    /\ v \in 1..Len(validations)
    /\ validations[v].pc = "isSpecialCase"
    /\ validations[v].stage = "rawResponse"
    /\ LET event == validations[v].event
       IN compLog' = [compLog EXCEPT ![v] =
              IF event.rawResponse = "fails"
              THEN Reported(@, <<"couldNotBeFetched">>)
              ELSE IF isSpecialCase(event)
              THEN Reported(@, If(event.contentEncoding # "gzip",
                                  "responseShouldIncludeContentEncoding(gzip)"))
              ELSE @]
    /\ validations' = [validations EXCEPT ![v].stage = "returned"]
    /\ UNCHANGED <<htmlOptions, resourceOptions>>
    /\ CompOnly

\* validate goes on after one of its awaits, a job after the awaited function
\* returned.  After isSpecialCase: a special case ends validate; for a media
\* type that is not compressible the raw response is read again; otherwise
\* checkForDisallowedCompressionMethods is called.  After a check: the next
\* check the options ask for is called, or validate returns.
ValidateResumes(v) ==
    /\ v \in 1..Len(validations)
    /\ validations[v].stage = "returned"
    /\ LET val == validations[v]
           event == val.event
           opts == shouldCheckIfCompressedWith(event.eventName)
           next == IF val.pc # "isSpecialCase" THEN Called(val, compLog[v], NextCheck(val.pc, opts))
                   ELSE IF isSpecialCase(event) THEN Called(val, compLog[v], "done")
                   ELSE IF ~isCompressibleAccordingToMediaType(event.mediaType)
                   THEN [val |-> [val EXCEPT !.pc = "notCompressible", !.stage = "rawResponse"],
                         log |-> compLog[v]]
                   ELSE Called(val, compLog[v], "checkForDisallowedCompressionMethods")
       IN /\ validations' = [validations EXCEPT ![v] = next.val]
          /\ compLog' = [compLog EXCEPT ![v] = next.log]
    /\ UNCHANGED <<htmlOptions, resourceOptions>>
    /\ CompOnly

\* What the branch of a resource that should not be compressed reports once
\* responseIsCompressed settled: a compressed response, and then a
\* content-encoding header.
notCompressible(event) ==
    If(responseIsCompressed(event.rawResponse, event.contentEncoding), "shouldNotBeCompressed")
    \o If(event.contentEncoding # "", "shouldNotIncludeContentEncoding")

\* The branch of a resource that should not be compressed, once the raw
\* response was read again: a failed read is reported and validate returns;
\* gzip bytes settle responseIsCompressed at once, validate reports and
\* returns; otherwise responseIsCompressed awaits zlib.brotliDecompress.
NotCompressibleSettles(v) ==
    /\ v \in 1..Len(validations)
    /\ validations[v].pc = "notCompressible"
    /\ validations[v].stage = "rawResponse"
    /\ LET event == validations[v].event
       IN IF event.rawResponse = "fails"
          THEN /\ validations' = [validations EXCEPT ![v].pc = "done", ![v].stage = "none"]
               /\ compLog' = [compLog EXCEPT ![v] = Reported(@, <<"couldNotBeFetched">>)]
          ELSE IF isCompressedWithGzip(event.rawResponse)
          THEN /\ validations' = [validations EXCEPT ![v].pc = "done", ![v].stage = "none"]
               /\ compLog' = [compLog EXCEPT ![v] = Reported(@, notCompressible(event))]
          ELSE /\ validations' = [validations EXCEPT ![v].stage = "brotli"]
               /\ UNCHANGED compLog
    /\ UNCHANGED <<htmlOptions, resourceOptions>>
    /\ CompOnly

\* The read of checkForDisallowedCompressionMethods settled: the check
\* reports and returns; validate is still at its await.
DisallowedSettles(v) ==
    /\ v \in 1..Len(validations)
    /\ validations[v].pc = "checkForDisallowedCompressionMethods"
    /\ validations[v].stage = "rawResponse"
    /\ validations' = [validations EXCEPT ![v].stage = "returned"]
    /\ compLog' = [compLog EXCEPT ![v] =
           Reported(@, checkForDisallowedCompressionMethods(validations[v].event))]
    /\ UNCHANGED <<htmlOptions, resourceOptions>>
    /\ CompOnly

\* context.fetchContent of getNetworkData settled (NoData: it rejected).  On
\* a rejection getNetworkData gives null, the check reports that and
\* returns; otherwise getNetworkData awaits rawResponse() of the answer.
FetchContentSettles(v, data) ==
    /\ v \in 1..Len(validations)
    /\ validations[v].stage = "fetchContent"
    /\ LET val == validations[v]
           opts == shouldCheckIfCompressedWith(val.event.eventName)
           failed == Reports(val, compLog[v], Segment(val, opts, NoData), NoData)
       IN IF data = NoData
          THEN /\ validations' = [validations EXCEPT ![v] = failed.val]
               /\ compLog' = [compLog EXCEPT ![v] = failed.log]
          ELSE /\ validations' = [validations EXCEPT ![v].stage = "rawResponse",
                                                     ![v].data = data]
               /\ UNCHANGED compLog
    /\ UNCHANGED <<htmlOptions, resourceOptions>>
    /\ CompOnly

\* rawResponse() of getNetworkData settled.  When it failed getNetworkData
\* gives null, the check reports that and returns.  Otherwise checkBrotli,
\* and checkUncompressed unless the bytes are gzip, await
\* zlib.brotliDecompress; checkGzipZopfli, and checkUncompressed for gzip
\* bytes, report and issue the next request or return.
RawResponseSettles(v, ok) ==
    /\ v \in 1..Len(validations)
    /\ validations[v].pc \in {"checkUncompressed", "checkGzipZopfli", "checkBrotli"}
    /\ validations[v].stage = "rawResponse"
    /\ LET val == validations[v]
           opts == shouldCheckIfCompressedWith(val.event.eventName)
           data == IF ok THEN val.data ELSE NoData
           reports == Reports(val, compLog[v], Segment(val, opts, data), data)
       IN IF ok /\ awaitsBrotli(val, data)
          THEN /\ validations' = [validations EXCEPT ![v].stage = "brotli"]
               /\ UNCHANGED compLog
          ELSE /\ validations' = [validations EXCEPT ![v] = reports.val]
               /\ compLog' = [compLog EXCEPT ![v] = reports.log]
    /\ UNCHANGED <<htmlOptions, resourceOptions>>
    /\ CompOnly

\* zlib.brotliDecompress of isCompressedWithBrotli settled.  In the branch
\* of a resource that should not be compressed validate reports and returns.
\* checkBrotli over https with a Brotli response awaits decompressBrotli
\* again; otherwise the check reports and returns.
BrotliSettles(v) ==
    /\ v \in 1..Len(validations)
    /\ validations[v].stage = "brotli"
    /\ LET val == validations[v]
           opts == shouldCheckIfCompressedWith(val.event.eventName)
           reports == Reports(val, compLog[v], Segment(val, opts, val.data), val.data)
       IN IF val.pc = "notCompressible"
          THEN /\ validations' = [validations EXCEPT ![v].pc = "done", ![v].stage = "none"]
               /\ compLog' = [compLog EXCEPT ![v] = Reported(@, notCompressible(val.event))]
          ELSE IF awaitsDecompress(val, val.data)
          THEN /\ validations' = [validations EXCEPT ![v].stage = "decompressBrotli"]
               /\ UNCHANGED compLog
          ELSE /\ validations' = [validations EXCEPT ![v] = reports.val]
               /\ compLog' = [compLog EXCEPT ![v] = reports.log]
    /\ UNCHANGED <<htmlOptions, resourceOptions>>
    /\ CompOnly

\* decompressBrotli(rawResponse) of checkBrotli settled: the check compares
\* the sizes, reports, and issues its request with the User-Agent header or
\* returns.
DecompressSettles(v) ==
    /\ v \in 1..Len(validations)
    /\ validations[v].stage = "decompressBrotli"
    /\ LET val == validations[v]
           reports == Reports(val, compLog[v], checkBrotli(val.event.protocol, val.data),
                              val.data)
       IN /\ validations' = [validations EXCEPT ![v] = reports.val]
          /\ compLog' = [compLog EXCEPT ![v] = reports.log]
    /\ UNCHANGED <<htmlOptions, resourceOptions>>
    /\ CompOnly

NextComp ==
    \/ \E event \in FetchEnds : Validate(event)
    \/ \E v \in 1..MaxValidations : SpecialCaseSettles(v)
    \/ \E v \in 1..MaxValidations : ValidateResumes(v)
    \/ \E v \in 1..MaxValidations : NotCompressibleSettles(v)
    \/ \E v \in 1..MaxValidations : DisallowedSettles(v)
    \/ \E v \in 1..MaxValidations, data \in Responses : FetchContentSettles(v, data)
    \/ \E v \in 1..MaxValidations, ok \in BOOLEAN : RawResponseSettles(v, ok)
    \/ \E v \in 1..MaxValidations : BrotliSettles(v)
    \/ \E v \in 1..MaxValidations : DecompressSettles(v)

StartComp ==
    InitComp /\ IdleWeb /\ IdleCLI /\ IdleLoader /\ IdleHttps /\ IdleBus /\ IdleEngine
    /\ IdleLocal
    /\ IdleExec
    /\ IdleShared
    /\ IdleCss

SpecComp == StartComp /\ [][NextComp]_vars

(***************************************************************************)
(* Claims about HttpCompressionHint, checked under SpecComp.               *)
(***************************************************************************)
\* The checks called for validation v, in the order of the calls.
ChecksOf(v) ==
    LET IsCheck(x) == x.kind = "check"
        called == SelectSeq(compLog[v], IsCheck)
    IN [k \in 1..Len(called) |-> called[k].what]

\* The requests and the reports of each check.
Does(check) ==
    CASE check = "checkForDisallowedCompressionMethods" ->
             {"couldNotBeFetched", "responseShouldNotBeCompressed",
              "responseShouldNotBeCompressed(sdch)"}
      [] check = "checkUncompressed" ->
             {"identity", "couldNotBeFetchedUncompressed",
              "shouldNotBeCompressedWithIdentity", "shouldNotIncludeWithIdentity"}
      [] check = "checkGzipZopfli" ->
             {"gzip", "User-Agent", "couldNotBeFetchedGzip", "responseBiggerThan",
              "responseSameSize", "responseShouldBeCompressedGzip(gzip)",
              "responseShouldBeCompressedGzip(Zopfli)", "responseShouldIncludeVary",
              "responseShouldIncludeContentEncoding(gzip)", "compressedWithGzipAgent",
              "compressedWithZopfliAgent"}
      [] OTHER ->
             {"br", "User-Agent", "couldNotBeFetchedBrotli", "noCompressedBrotliOverHTTP",
              "responseBiggerThan", "responseSameSize", "compressedWithBrotliOverHTTPS",
              "responseShouldIncludeVary", "responseShouldIncludeContentEncoding(br)",
              "compressedWithBrotliOverHTTPSAgent"}

\* The checks the claim expects for an event.
ExpectedChecks(event) ==
    LET opts == IF event.eventName = "fetch::end::html" THEN htmlOptions ELSE resourceOptions
    IN <<"checkForDisallowedCompressionMethods", "checkUncompressed">>
       \o (IF opts.gzip \/ opts.zopfli THEN <<"checkGzipZopfli">> ELSE <<>>)
       \o (IF opts.brotli THEN <<"checkBrotli">> ELSE <<>>)

\* C31: for a 200 response with a regular protocol, no special case and a
\* compressible media type the checks are called one at a time in the order
\* disallowed methods, uncompressed, gzip/Zopfli (when gzip or zopfli is on),
\* Brotli (when brotli is on), with the html options exactly for
\* fetch::end::html; for another status code or protocol nothing is
\* checked, requested or reported.
C31_ChecksInOrder ==
    \A v \in 1..Len(validations) :
        LET event == validations[v].event
            called == ChecksOf(v)
            expected == ExpectedChecks(event)
        IN /\ (event.statusCode # 200 \/ event.protocol \notin {"http", "https"}) =>
                  /\ validations[v].pc = "done"
                  /\ compLog[v] = <<>>
           /\ (/\ event.statusCode = 200
               /\ event.protocol \in {"http", "https"}
               /\ event.mediaType \in {"text/html", "text/javascript"}) =>
                  /\ Len(called) <= Len(expected)
                  /\ \A k \in 1..Len(called) : called[k] = expected[k]
                  /\ validations[v].pc = "done" => called = expected
                  /\ validations[v].pc \in Checks =>
                         (called # <<>> /\ called[Len(called)] = validations[v].pc)
                  /\ \A k \in 1..Len(compLog[v]) :
                         LET before == {j \in 1..(k - 1) : compLog[v][j].kind = "check"}
                             last == CHOOSE j \in before : \A i \in before : i <= j
                         IN compLog[v][k].kind \in {"request", "report"} =>
                                /\ compLog[v][k].kind = "request" => before # {}
                                /\ before # {} =>
                                       compLog[v][k].what \in Does(compLog[v][last].what)

C31_Witness ==
    /\ htmlOptions = Options(FALSE, FALSE, TRUE)
    /\ resourceOptions = Options(FALSE, TRUE, FALSE)
    /\ \E v \in 1..Len(validations) :
           /\ validations[v].pc = "done"
           /\ validations[v].event.eventName = "fetch::end::html"
           /\ ChecksOf(v) = <<"checkForDisallowedCompressionMethods", "checkUncompressed",
                              "checkBrotli">>


(***************************************************************************)
(* CSSCompatHint: walk, addToReportsMap and reportUnsupported              *)
(* (packages/hint-compat-api/src/css.ts), for a block of declarations.     *)
(***************************************************************************)
CssOnly ==
    UNCHANGED <<webVars, cliVars, loaderVars, httpsVars, busVars, engineVars, localVars,
                execVars, sharedVars, compVars>>

\* context.browsers, and the names of one feature with and without prefix.
Browsers == {"chrome", "ie"}
Props == {"a", "-webkit-a"}
Values == {"v", "-webkit-v"}

\* getUnprefixed / getVendorPrefix of @hint/utils-css.
getVendorPrefix(name) == IF name \in {"-webkit-a", "-webkit-v"} THEN "-webkit-" ELSE ""
getUnprefixed(name) ==
    CASE name = "-webkit-a" -> "a"
      [] name = "-webkit-v" -> "v"
      [] OTHER -> name

\* A declaration node.
Decl(prop, value) == [prop |-> prop, value |-> value]
Decls == {Decl(prop, value) : prop \in Props, value \in Values}

\* getUnsupportedDetails(feature, browsers): the browsers among those given
\* that do not support the feature; the empty set stands for null.
getUnsupportedDetails(unsupported, browsers) == unsupported \cap browsers

\* ReportData: the node (its place in the block), whether the report is
\* about the value, and unsupported.browsers.
ReportData(node, isValue, browsers) ==
    [node |-> node, isValue |-> isValue, browsers |-> browsers]

\* validateDecl and validateDeclValue for node n of the block.
validateDecl(n) ==
    ReportData(n, FALSE, getUnsupportedDetails(compatProp[cssBlock[n].prop], Browsers))
validateDeclValue(n, browsers) ==
    ReportData(n, TRUE, getUnsupportedDetails(compatValue[cssBlock[n].value], browsers))

\* The keys of walk: the unprefixed property, and the unprefixed property
\* with the unprefixed value.
PropKey(n) == <<getUnprefixed(cssBlock[n].prop)>>
ValueKey(n) == <<getUnprefixed(cssBlock[n].prop), getUnprefixed(cssBlock[n].value)>>

\* reportsMap is the sequence of its entries in insertion order; an entry is
\* 'supported' or holds its reports.
MapEntry(key, supported, reports) ==
    [key |-> key, supported |-> supported, reports |-> reports]
IndexOf(map, key) ==
    IF \E k \in 1..Len(map) : map[k].key = key
    THEN CHOOSE k \in 1..Len(map) : map[k].key = key
    ELSE 0

\* An addToReportsMap that tracks a report although the key is 'supported'.
addToReportsMapForgets(map, key, report) ==
    LET k == IndexOf(map, key)
    IN IF report.browsers = {}
       THEN IF k = 0 THEN Append(map, MapEntry(key, TRUE, <<>>))
            ELSE [map EXCEPT ![k] = MapEntry(key, TRUE, <<>>)]
       ELSE IF k = 0 THEN Append(map, MapEntry(key, FALSE, <<report>>))
            ELSE [map EXCEPT ![k] = MapEntry(key, FALSE, Append(map[k].reports, report))]

\* addToReportsMap: no report sets the key to 'supported'; a report is
\* pushed unless the key is 'supported'.
addToReportsMap(map, key, report) ==
    LET k == IndexOf(map, key)
    IN IF report.browsers = {}
       THEN IF k = 0 THEN Append(map, MapEntry(key, TRUE, <<>>))
            ELSE [map EXCEPT ![k] = MapEntry(key, TRUE, <<>>)]
       ELSE IF k = 0 THEN Append(map, MapEntry(key, FALSE, <<report>>))
            ELSE IF map[k].supported THEN map
            ELSE [map EXCEPT ![k].reports = Append(@, report)]

\* The loop of walk from node n on: the property's report, then the value's
\* report on the browsers that support the property.
RECURSIVE WalkNodes(_, _)
WalkNodes(n, map) ==
    IF n > Len(cssBlock) THEN map
    ELSE LET report == validateDecl(n)
             supportedBrowsers == Browsers \ report.browsers
             withProp == addToReportsMap(map, PropKey(n), report)
         IN WalkNodes(n + 1,
                      addToReportsMap(withProp, ValueKey(n),
                                      validateDeclValue(n, supportedBrowsers)))

\* intersection(...reports.map(report => report.unsupported.browsers))
Intersection(reports) ==
    {b \in Browsers : \A k \in 1..Len(reports) : b \in reports[k].browsers}

\* The filter of reportUnsupported: neither the property nor the value of
\* the node has a vendor prefix.
IsUnprefixed(report) ==
    /\ getVendorPrefix(cssBlock[report.node].prop) = ""
    /\ getVendorPrefix(cssBlock[report.node].value) = ""

\* reportUnsupported from entry k of the map on: out is the context.report
\* calls so far.
RECURSIVE reportUnsupported(_, _, _)
reportUnsupported(map, k, out) ==
    IF k > Len(map) THEN out
    ELSE IF map[k].supported \/ Intersection(map[k].reports) = {}
    THEN reportUnsupported(map, k + 1, out)
    ELSE LET browsers == Intersection(map[k].reports)
             unprefixedReports == SelectSeq(map[k].reports, IsUnprefixed)
             finalReports == IF Len(unprefixedReports) > 0 THEN unprefixedReports
                             ELSE map[k].reports
         IN reportUnsupported(map, k + 1,
                out \o [r \in 1..Len(finalReports) |->
                           ReportData(finalReports[r].node, finalReports[r].isValue, browsers)])

\* A style sheet was parsed: a block of declarations and the compat data of
\* the names used.
InitCss ==
    /\ compatProp \in [Props -> SUBSET Browsers]
    /\ compatValue \in [Values -> SUBSET Browsers]
    /\ cssBlock \in SeqUpTo(Decls, MaxNodes)
    /\ cssPc = "parsed"
    /\ cssReported = <<>>

\* walk(ast, context) of the block.
Walk ==
    /\ cssPc = "parsed"
    /\ cssPc' = "walked"
    /\ cssReported' = reportUnsupported(WalkNodes(1, <<>>), 1, <<>>)
    /\ UNCHANGED <<compatProp, compatValue, cssBlock>>
    /\ CssOnly

NextCss ==
    \/ Walk

StartCss ==
    InitCss /\ IdleWeb /\ IdleCLI /\ IdleLoader /\ IdleHttps /\ IdleBus /\ IdleEngine
    /\ IdleLocal
    /\ IdleExec
    /\ IdleShared
    /\ IdleComp

SpecCss == StartCss /\ [][NextCss]_vars

(***************************************************************************)
(* Claims about CSSCompatHint, checked under SpecCss.                      *)
(***************************************************************************)
\* What the nodes of the block report for the property key and for the
\* value key, each node taken alone.
PropUnsupported(n) == compatProp[cssBlock[n].prop]
ValueUnsupported(n) == compatValue[cssBlock[n].value] \ PropUnsupported(n)
UnsupportedOf(n, isValue) == IF isValue THEN ValueUnsupported(n) ELSE PropUnsupported(n)
PlainNodes == {n \in 1..Len(cssBlock) :
                  cssBlock[n].prop \in {"a"} /\ cssBlock[n].value \in {"v"}}

\* The reports the claim expects for one key of the block (all nodes of the
\* model share the unprefixed property and the unprefixed value).
ExpectedReports(isValue) ==
    LET nodes == 1..Len(cssBlock)
        common == {b \in Browsers : \A n \in nodes : b \in UnsupportedOf(n, isValue)}
        shown == IF PlainNodes # {} THEN PlainNodes ELSE nodes
    IN IF (\E n \in nodes : UnsupportedOf(n, isValue) = {}) \/ common = {}
       THEN {}
       ELSE {ReportData(n, isValue, common) : n \in shown}

\* C32: for each key of a walked block, nothing is reported when a node of
\* the key has no report or when no browser is unsupported in every report;
\* otherwise the browsers unsupported in every report are reported, for the
\* unprefixed nodes when there is one and for all nodes otherwise, whatever
\* the order of the nodes.
C32_ReportsCombined ==
    cssPc = "walked" =>
        /\ Range(cssReported) = ExpectedReports(FALSE) \cup ExpectedReports(TRUE)
        /\ \A k1, k2 \in 1..Len(cssReported) : cssReported[k1] = cssReported[k2] => k1 = k2

C32_Witness ==
    /\ cssPc = "walked"
    /\ Len(cssBlock) = 3
    /\ cssBlock[1] = Decl("-webkit-a", "v")
    /\ cssBlock[3] = Decl("a", "v")
    /\ compatProp["a"] = {"ie"}
    /\ compatProp["-webkit-a"] = {"chrome", "ie"}
    /\ Range(cssReported) = {ReportData(3, FALSE, {"ie"})}

=============================================================================
